---- MODULE Spec2Model ----
(***************************************************************************)
(* Model of src/core/checker.py: URLChecker, the asynchronous URL checker. *)
(*                                                                         *)
(* One checker instance is modelled: its session, its metric counters and  *)
(* its dedup set.  Callers invoke check_url (one URL, directly) or         *)
(* check_urls (a batch, one safe_check_url task per URL, gathered).  A     *)
(* task runs atomically between two suspension points; the only            *)
(* suspension point of check_url is the await of session.get.              *)
(***************************************************************************)
EXTENDS Integers, Sequences, FiniteSets, TLC

\* ---------------------------------------------------------------- bounds
MaxRetriesCfg == 2      \* max_retries is drawn from 0..MaxRetriesCfg
MaxBatch == 2           \* longest list handed to check_urls
MaxTasks == 3           \* URL checks started over the checker's lifetime

\* ------------------------------------------------------------- constants
StopAfterAttempt == 3   \* tenacity: stop_after_attempt(3)

URLs == {"http://a", "http://b"}

\* Status codes a response may carry (both ends of the 200..399 window).
Statuses == {200, 399, 400}

\* Exception classes session.get can raise, each with the classes it is an
\* instance of (Python's isinstance, which the except clauses test in order).
\* ClientConnectorSSLError is aiohttp's TLS failure: both a ClientError and
\* an ssl.SSLError.
ExcNames ==
    {"TooManyRedirects", "TimeoutError", "ClientError", "SSLError",
     "ClientConnectorSSLError", "Exception"}

Bases(e) ==
    CASE e = "TooManyRedirects" -> {"TooManyRedirects", "ClientError", "Exception"}
      [] e = "TimeoutError" -> {"TimeoutError", "Exception"}
      [] e = "ClientError" -> {"ClientError", "Exception"}
      [] e = "SSLError" -> {"SSLError", "Exception"}
      [] e = "ClientConnectorSSLError" -> {"ClientError", "SSLError", "Exception"}
      [] e = "RuntimeError" -> {"RuntimeError", "Exception"}
      [] OTHER -> {"Exception"}

IsInstance(e, c) == c \in Bases(e)

\* What one awaited session.get can produce.
Outcomes ==
    [kind : {"response"}, status : Statuses, exc : {"none"}]
      \cup [kind : {"raise"}, status : {0}, exc : ExcNames]

\* ------------------------------------------------------------- the state
VARIABLES
    max_retries,    \* self.max_retries
    session,        \* self._session: "none" (None), "open", "closed"
    metrics,        \* self._metrics
    unique_urls,    \* self._unique_urls
    call,           \* the call in progress: [kind, urls]
    tasks,          \* one record per coroutine of the call in progress
    order,          \* indices of the finished tasks, in completion order
    ret,            \* what the last call gave its caller (and, as history,
                    \* its input and the order its tasks finished in)
    spawned,        \* number of URL checks started so far
    gets,           \* history: number of session.get calls issued
    everChecked,    \* history: URLs handed to check_url on a set session
    snap,           \* the mapping get_metrics last returned to a caller
    thread,         \* CheckerThread (gui/main_window.py): its run
    data,           \* ProcessingTracker.data["urls"]: URL -> record
    processing_file,    \* the content of processing.json
    tlast,          \* history: the tracker method called last, data before
    tthreads,       \* threads that call the tracker concurrently
    queue,          \* ContentProcessor.queue
    is_running,     \* ContentProcessor.is_running
    stop_event,     \* ContentProcessor.stop_event
    queue_thread,   \* ContentProcessor.queue_thread and where it stands
    executor,       \* ContentProcessor.executor
    futures,        \* the process_url calls submitted to the executors
    pcaller,        \* the caller inside start_processing/stop_processing
    phist           \* history of the processor's run

\* The tracker and its callers.
trk == <<data, processing_file, tlast, tthreads>>

\* The content processor without its tracker.
proc ==
    <<queue, is_running, stop_event, queue_thread, executor, futures,
      pcaller, phist>>

\* The state outside the checker and the thread that runs it.
outside == <<trk, proc>>

\* The state outside the checker itself.
ext == <<snap, thread, outside>>

vars ==
    <<max_retries, session, metrics, unique_urls, call, tasks, order, ret,
      spawned, gets, everChecked, snap, thread, data, processing_file, tlast,
      tthreads, queue, is_running, stop_event, queue_thread, executor, futures,
      pcaller, phist>>

MetricKeys ==
    {"total_requests", "unique_requests", "successful_requests",
     "failed_requests", "timeout_errors", "network_errors", "ssl_errors",
     "other_errors"}

ZeroMetrics == [k \in MetricKeys |-> 0]

Inc(m, k) == [m EXCEPT ![k] = @ + 1]

\* ---------------------------------------------------------- URLResponse
NoError == [present |-> FALSE, prefix |-> "", detail |-> ""]

Err(prefix, detail) == [present |-> TRUE, prefix |-> prefix, detail |-> detail]

NotInitialized == "Session not initialized. Use async with context manager"

\* str(e): the message of the RuntimeError check_url raises, else the
\* message the exception raised by session.get carries
Str(e) == IF e = "RuntimeError" THEN NotInitialized ELSE e

NoResult ==
    [url |-> "", status |-> -1, is_available |-> FALSE, final_url |-> "None",
     error |-> NoError, headers |-> "None", content_type |-> "None",
     response_time |-> "None", retry_count |-> -1]

\* (mutant) the availability window closed at 400
ResponseResultInclusive(url, status, retry_count) ==
    [url |-> url, status |-> status,
     is_available |-> (200 <= status /\ status <= 400),
     final_url |-> "set", error |-> NoError, headers |-> "set",
     content_type |-> "headers.get", response_time |-> "set",
     retry_count |-> retry_count]

\* URLResponse(...) built from an obtained response; content_type is what
\* response.headers.get("content-type") gives
ResponseResult(url, status, retry_count) ==
    [url |-> url, status |-> status,
     is_available |-> (200 <= status /\ status < 400),
     final_url |-> "set", error |-> NoError, headers |-> "set",
     content_type |-> "headers.get", response_time |-> "set",
     retry_count |-> retry_count]

\* (mutant) the failure result built without its error text
FailureResultNoError(url, error, retry_count) ==
    [url |-> url, status |-> 0, is_available |-> FALSE, final_url |-> "None",
     error |-> NoError, headers |-> "None", content_type |-> "None",
     response_time |-> "set", retry_count |-> retry_count]

\* URLResponse(...) built on a failure path of check_url
FailureResult(url, error, retry_count) ==
    [url |-> url, status |-> 0, is_available |-> FALSE, final_url |-> "None",
     error |-> error, headers |-> "None", content_type |-> "None",
     response_time |-> "set", retry_count |-> retry_count]


\* ------------------------------------------------------------- check_url
\* (mutant) every checked URL counted, seen before or not
DedupAddNoCheck(uu, m, url) ==
    [unique_urls |-> uu \cup {url}, metrics |-> Inc(m, "unique_requests")]

\* if url not in self._unique_urls: add it and count it
DedupAdd(uu, m, url) ==
    IF url \notin uu
    THEN [unique_urls |-> uu \cup {url}, metrics |-> Inc(m, "unique_requests")]
    ELSE [unique_urls |-> uu, metrics |-> m]

\* A step of the coroutine up to its next suspension point, its return or
\* its raise: kind is "await" (session.get issued), "return" or "raise".
StepRec(kind, exc, m, uu, attempt, result) ==
    [kind |-> kind, exc |-> exc, metrics |-> m, unique_urls |-> uu,
     attempt |-> attempt, result |-> result]

\* (mutant) the attempt counted before the loop only, not in each iteration
LoopNextCountOnce(m, uu, url, attempt, maxr) ==
    IF attempt + 1 <= maxr
    THEN StepRec("await", "none",
                 IF attempt = 0 THEN Inc(m, "total_requests") ELSE m,
                 uu, attempt + 1, NoResult)
    ELSE StepRec("return", "none", Inc(m, "failed_requests"), uu, attempt,
                 FailureResult(url, Err("Unknown error", ""), maxr))

\* (mutant) the loop bounded by the decorator's stop_after_attempt instead
\* of the configured max_retries
LoopNextStopAfterAttempt(m, uu, url, attempt, maxr) ==
    IF attempt + 1 <= StopAfterAttempt
    THEN StepRec("await", "none", Inc(m, "total_requests"), uu, attempt + 1,
                 NoResult)
    ELSE StepRec("return", "none", Inc(m, "failed_requests"), uu, attempt,
                 FailureResult(url, Err("Unknown error", ""), maxr))

\* for attempt in range(1, self.max_retries + 1): the next iteration counts
\* the attempt and awaits session.get; an exhausted range falls through to
\* the code after the loop.
LoopNext(m, uu, url, attempt, maxr) ==
    IF attempt + 1 <= maxr
    THEN StepRec("await", "none", Inc(m, "total_requests"), uu, attempt + 1,
                 NoResult)
    ELSE StepRec("return", "none", Inc(m, "failed_requests"), uu, attempt,
                 FailureResult(url, Err("Unknown error", ""), maxr))

\* What the handling of one attempt's outcome gives: the counters, whether
\* the loop ends (done = FALSE is "continue") and the result if it does.
Out(m, done, result) == [metrics |-> m, done |-> done, result |-> result]

\* (mutant) a response with an error status retried once
OnResponseRetryOnError(m, url, attempt, status) ==
    IF status >= 400 /\ attempt < 2
    THEN Out(m, FALSE, NoResult)
    ELSE Out(Inc(m, "successful_requests"), TRUE,
             ResponseResult(url, status, attempt - 1))

\* (mutant) retry_count taken as the attempt number
OnResponseAttemptNumber(m, url, attempt, status) ==
    Out(Inc(m, "successful_requests"), TRUE,
        ResponseResult(url, status, attempt))

\* async with response_object as response: a response was obtained
OnResponse(m, url, attempt, status) ==
    Out(Inc(m, "successful_requests"), TRUE,
        ResponseResult(url, status, attempt - 1))

\* (mutant) a first too-many-redirects retried like a network error
OnTooManyRedirectsRetried(m, url, attempt, e) ==
    IF attempt = 1
    THEN Out(m, FALSE, NoResult)
    ELSE Out(Inc(m, "failed_requests"), TRUE,
             FailureResult(url, Err("Too many redirects: ", Str(e)),
                           attempt - 1))

\* except aiohttp.TooManyRedirects
OnTooManyRedirects(m, url, attempt, e) ==
    Out(Inc(m, "failed_requests"), TRUE,
        FailureResult(url, Err("Too many redirects: ", Str(e)), attempt - 1))

\* (mutant) the error counters bumped on every failed attempt, as the
\* unused _check_url does
OnTimeoutOrClientErrorEager(m, url, attempt, e, maxr) ==
    LET m1 == IF IsInstance(e, "TimeoutError")
              THEN Inc(m, "timeout_errors")
              ELSE Inc(m, "network_errors")
    IN IF attempt = maxr
       THEN IF IsInstance(e, "TimeoutError")
            THEN Out(Inc(m1, "failed_requests"), TRUE,
                     FailureResult(url, Err("Timeout", ""), maxr))
            ELSE Out(Inc(m1, "failed_requests"), TRUE,
                     FailureResult(url, Err("Network error: ", Str(e)), maxr))
       ELSE Out(m1, FALSE, NoResult)

\* except (asyncio.TimeoutError, aiohttp.ClientError)
OnTimeoutOrClientError(m, url, attempt, e, maxr) ==
    IF IsInstance(e, "TooManyRedirects")
    THEN Out(Inc(m, "failed_requests"), TRUE,
             FailureResult(url,
                 Err("Too many redirects (caught in ClientError): ", Str(e)),
                 attempt - 1))
    ELSE IF attempt = maxr
    THEN IF IsInstance(e, "TimeoutError")
         THEN Out(Inc(Inc(m, "timeout_errors"), "failed_requests"), TRUE,
                  FailureResult(url, Err("Timeout", ""), maxr))
         ELSE Out(Inc(Inc(m, "network_errors"), "failed_requests"), TRUE,
                  FailureResult(url, Err("Network error: ", Str(e)), maxr))
    ELSE Out(m, FALSE, NoResult)

\* except ssl.SSLError
OnSSLError(m, url, attempt, e) ==
    Out(Inc(m, "ssl_errors"), TRUE,
        FailureResult(url, Err("SSL error: ", Str(e)), attempt - 1))

\* (mutant) the exhausted check reporting attempt - 1 as its retry_count
OnExceptionAttemptMinusOne(m, url, attempt, e, maxr) ==
    IF attempt = maxr
    THEN Out(Inc(m, "other_errors"), TRUE,
             FailureResult(url, Err("", Str(e)), attempt - 1))
    ELSE Out(Inc(m, "other_errors"), FALSE, NoResult)

\* (mutant) the clause without its return on the last attempt
OnExceptionNoReturn(m, url, attempt, e, maxr) ==
    Out(Inc(m, "other_errors"), FALSE, NoResult)

\* except Exception
OnException(m, url, attempt, e, maxr) ==
    IF attempt = maxr
    THEN Out(Inc(m, "other_errors"), TRUE,
             FailureResult(url, Err("", Str(e)), maxr))
    ELSE Out(Inc(m, "other_errors"), FALSE, NoResult)

\* The try statement of one attempt once session.get has answered: the
\* body on a response, else the first except clause, in the order they are
\* written, whose class the exception is an instance of.
HandleOutcome(m, url, attempt, o, maxr) ==
    IF o.kind = "response"
    THEN OnResponse(m, url, attempt, o.status)
    ELSE IF IsInstance(o.exc, "TooManyRedirects")
    THEN OnTooManyRedirects(m, url, attempt, o.exc)
    ELSE IF IsInstance(o.exc, "TimeoutError") \/ IsInstance(o.exc, "ClientError")
    THEN OnTimeoutOrClientError(m, url, attempt, o.exc, maxr)
    ELSE IF IsInstance(o.exc, "SSLError")
    THEN OnSSLError(m, url, attempt, o.exc)
    ELSE OnException(m, url, attempt, o.exc, maxr)

\* (mutant) the session test placed after the dedup bookkeeping
CheckUrlEnterDedupFirst(sess, m, uu, url, maxr) ==
    LET d == DedupAdd(uu, m, url)
    IN IF sess = "none"
       THEN StepRec("raise", "RuntimeError", d.metrics, d.unique_urls, 0,
                    NoResult)
       ELSE LoopNext(d.metrics, d.unique_urls, url, 0, maxr)

\* check_url from its call to its first suspension point
CheckUrlEnter(sess, m, uu, url, maxr) ==
    IF sess = "none"
    THEN StepRec("raise", "RuntimeError", m, uu, 0, NoResult)
    ELSE LET d == DedupAdd(uu, m, url)
         IN LoopNext(d.metrics, d.unique_urls, url, 0, maxr)

\* check_url from the answer of session.get to its next suspension point
CheckUrlResume(m, uu, url, attempt, o, maxr) ==
    LET h == HandleOutcome(m, url, attempt, o, maxr)
    IN IF h.done
       THEN StepRec("return", "none", h.metrics, uu, attempt, h.result)
       ELSE LoopNext(h.metrics, uu, url, attempt, maxr)

\* The @retry decorator: an exception leaving check_url's body is retried,
\* after a wait_exponential sleep, iff it is a ClientError or a TimeoutError
\* and fewer than stop_after_attempt calls were made; else it is re-raised.
TenacityRetries(exc, attempt_number) ==
    /\ IsInstance(exc, "ClientError") \/ IsInstance(exc, "TimeoutError")
    /\ attempt_number < StopAfterAttempt

\* -------------------------------------------------------- safe_check_url
\* (mutant) the except clause without the failure count
SafeCheckExceptNoCount(m, url, exc, maxr) ==
    [metrics |-> m,
     result |-> [url |-> url, status |-> 0, is_available |-> FALSE,
                 final_url |-> "None", error |-> Err("", Str(exc)),
                 headers |-> "None", content_type |-> "None",
                 response_time |-> "None", retry_count |-> maxr]]

\* except Exception as e: count a failure and build the result
SafeCheckExcept(m, url, exc, maxr) ==
    [metrics |-> Inc(m, "failed_requests"),
     result |-> [url |-> url, status |-> 0, is_available |-> FALSE,
                 final_url |-> "None", error |-> Err("", Str(exc)),
                 headers |-> "None", content_type |-> "None",
                 response_time |-> "None", retry_count |-> maxr]]

\* ------------------------------------------------------------ coroutines
NewTask ==
    [pc |-> "created", attempt |-> 0, hist |-> <<>>, result |-> NoResult,
     exc |-> "none", sleeps |-> 0, contrib |-> ZeroMetrics]

AddDiff(c, m0, m1) == [k \in MetricKeys |-> c[k] + (m1[k] - m0[k])]

\* The task after a step st of check_url, seen through the decorator and,
\* in a batch, through safe_check_url.  Gives the task and the metrics.
AfterStep(t, safe, url, st, maxr) ==
    CASE st.kind = "await" ->
           [task |-> [t EXCEPT !.pc = "awaiting", !.attempt = st.attempt],
            metrics |-> st.metrics]
      [] st.kind = "return" ->
           [task |-> [t EXCEPT !.pc = "done", !.attempt = st.attempt,
                               !.result = st.result],
            metrics |-> st.metrics]
      [] OTHER ->
           IF TenacityRetries(st.exc, t.sleeps + 1)
           THEN [task |-> [t EXCEPT !.sleeps = @ + 1], metrics |-> st.metrics]
           ELSE IF safe
           THEN LET w == SafeCheckExcept(st.metrics, url, st.exc, maxr)
                IN [task |-> [t EXCEPT !.pc = "done", !.exc = st.exc,
                                       !.result = w.result],
                    metrics |-> w.metrics]
           ELSE [task |-> [t EXCEPT !.pc = "raised", !.exc = st.exc],
                 metrics |-> st.metrics]

Finished(t) == t.pc \in {"done", "raised"}

\* -------------------------------------------------------------- gather
\* (mutant) the results in the order the tasks finished
GatherAsCompleted(ts, ord) == [k \in 1..Len(ord) |-> ts[ord[k]].result]

\* asyncio.gather(*tasks): the results in the order of the awaitables
Gather(ts, ord) == [i \in 1..Len(ts) |-> ts[i].result]

\* ------------------------------------------------------ ProcessingTracker
\* The values of the tracker's callers.
Titles == {"Test", "New Title"}

CheckOutcomes == {"True", "False"}

ErrorTexts == {"None", "Test error"}

Paths == {"None", "test.md"}

\* The statuses update_url_status is called with (content_processor.py).
SetStatuses == {"processing", "completed", "error"}

\* Python truth of a stored check_result or markdown_path.
Truthy(v) == v \notin {"None", "False", ""}

\* self.data["urls"] of a new tracker: {}
NoUrls == [u \in {} |-> 0]

\* d[url] = r
Put(d, url, r) ==
    [x \in DOMAIN d \cup {url} |-> IF x = url THEN r ELSE d[x]]

\* The record add_url creates.
NewRecord(title) ==
    [title |-> title, status |-> "pending", check_result |-> "None",
     check_time |-> "None", markdown_path |-> "None", error |-> "None"]

\* (mutant) add_url overwriting the record of a tracked URL
AddUrlOverwrite(d, url, title) == Put(d, url, NewRecord(title))

\* add_url: under the lock, a record for a URL not yet tracked
AddUrl(d, url, title) ==
    IF url \notin DOMAIN d THEN Put(d, url, NewRecord(title)) ELSE d

\* update_check_result
UpdateCheckResult(d, url, success, error) ==
    IF url \in DOMAIN d
    THEN [d EXCEPT ![url] =
            [@ EXCEPT !.status = "checked", !.check_result = success,
                      !.check_time = "set", !.error = error]]
    ELSE d

\* (mutant) update_markdown_path(url, None) leaving the status as it is
UpdateMarkdownPathKeepStatus(d, url, markdown_path) ==
    IF url \in DOMAIN d
    THEN [d EXCEPT ![url] =
            [@ EXCEPT !.status = IF Truthy(markdown_path)
                                 THEN "completed" ELSE @,
                      !.markdown_path = markdown_path]]
    ELSE d

\* update_markdown_path
UpdateMarkdownPath(d, url, markdown_path) ==
    IF url \in DOMAIN d
    THEN [d EXCEPT ![url] =
            [@ EXCEPT !.status = IF Truthy(markdown_path)
                                 THEN "completed" ELSE "failed",
                      !.markdown_path = IF Truthy(markdown_path)
                                        THEN markdown_path ELSE "None"]]
    ELSE d

\* (mutant) a URL without check result taken as pending: what
\* info.get("check_result", True) would give if the key were missing
GetPendingUrlsUncheckedToo(d) ==
    {url \in DOMAIN d :
        /\ d[url].status \in {"pending", "checked"}
        /\ d[url].check_result # "False"
        /\ ~Truthy(d[url].markdown_path)}

\* get_pending_urls (as a set; the list is in the order of insertion)
GetPendingUrls(d) ==
    {url \in DOMAIN d :
        /\ d[url].status \in {"pending", "checked"}
        /\ Truthy(d[url].check_result)
        /\ ~Truthy(d[url].markdown_path)}

\* (mutant) reset_failed resetting the URLs in status error as well
ResetFailedAndError(d) ==
    [url \in DOMAIN d |->
        IF d[url].status \in {"failed", "error"}
        THEN [d[url] EXCEPT !.status = "pending", !.check_result = "None",
                            !.check_time = "None", !.markdown_path = "None",
                            !.error = "None"]
        ELSE d[url]]

\* (mutant) reset_failed keeping the check result of the URLs it resets
ResetFailedKeepCheck(d) ==
    [url \in DOMAIN d |->
        IF d[url].status = "failed"
        THEN [d[url] EXCEPT !.status = "pending", !.check_time = "None",
                            !.markdown_path = "None", !.error = "None"]
        ELSE d[url]]

\* reset_failed
ResetFailed(d) ==
    [url \in DOMAIN d |->
        IF d[url].status = "failed"
        THEN [d[url] EXCEPT !.status = "pending", !.check_result = "None",
                            !.check_time = "None", !.markdown_path = "None",
                            !.error = "None"]
        ELSE d[url]]

\* update_url_status
UpdateUrlStatus(d, url, status, error) ==
    IF url \in DOMAIN d
    THEN [d EXCEPT ![url] =
            [@ EXCEPT !.status = status, !.error = error,
                      !.check_time = IF status = "completed"
                                     THEN "set" ELSE @]]
    ELSE d

\* json.dump of a value of a record: None as null, a bool as true or
\* false, a str as a JSON string.
JsonDump(v) ==
    CASE v = "None" -> [t |-> "null", s |-> ""]
      [] v = "True" -> [t |-> "true", s |-> ""]
      [] v = "False" -> [t |-> "false", s |-> ""]
      [] OTHER -> [t |-> "string", s |-> v]

\* json.load of a JSON value
JsonLoad(j) ==
    CASE j.t = "null" -> "None"
      [] j.t = "true" -> "True"
      [] j.t = "false" -> "False"
      [] OTHER -> j.s

\* _save_data: what json.dump writes for the URL table d
SaveData(d) ==
    [url \in DOMAIN d |-> [k \in DOMAIN d[url] |-> JsonDump(d[url][k])]]

\* _load_data: the URL table json.load reads from the file content f
LoadData(f) ==
    [url \in DOMAIN f |-> [k \in DOMAIN f[url] |-> JsonLoad(f[url][k])]]

\* (mutant) update_url_status without its _save_data
SavesButStatus(op, d, url) ==
    CASE op = "add_url" -> url \notin DOMAIN d
      [] op \in {"update_check_result", "update_markdown_path"} ->
            url \in DOMAIN d
      [] op = "reset_failed" -> \E u \in DOMAIN d : d[u].status = "failed"
      [] OTHER -> FALSE

\* Whether method op, called with url on the table d, takes the branch
\* that ends with self._save_data().
Saves(op, d, url) ==
    CASE op = "add_url" -> url \notin DOMAIN d
      [] op \in {"update_check_result", "update_markdown_path",
                 "update_url_status"} -> url \in DOMAIN d
      [] op = "reset_failed" -> \E u \in DOMAIN d : d[u].status = "failed"
      [] OTHER -> FALSE

\* No tracker method called yet.
NoOp ==
    [op |-> "none", url |-> "", arg |-> "", error |-> "", before |-> NoUrls,
     result |-> {}]

\* The threads of test_thread_safety: the URLs each of them handles, with
\* the title and the path it gives them.
TestUrls ==
    << <<[url |-> "http://test0", title |-> "Test 0", path |-> "test_0.md"],
         [url |-> "http://test1", title |-> "Test 1", path |-> "test_1.md"]>>,
       <<[url |-> "http://test2", title |-> "Test 2", path |-> "test_2.md"],
         [url |-> "http://test3", title |-> "Test 3", path |-> "test_3.md"]>>,
       <<[url |-> "http://test4", title |-> "Test 4", path |-> "test_4.md"],
         [url |-> "http://test5", title |-> "Test 5", path |-> "test_5.md"]>> >>

TrackerThreads == 1..Len(TestUrls)

\* A thread before its first call: i is the URL it works on, pc the call
\* it makes next, seen the dict as it last read it outside the lock.
NewTrackerThread == [i |-> 1, pc |-> "add_url", seen |-> NoUrls]

\* ------------------------------------------------------- ContentProcessor
\* self.queue_thread = None
NoQueueThread == [pc |-> "none", url |-> ""]

\* Nothing has happened to the processor yet.
NoHistory ==
    [last |-> "none", adds |-> 0, starts |-> 0, everStopped |-> FALSE,
     generated |-> {}, failed |-> {}, threads |-> 0]

\* What generate_markdown does: it returns the path it saved to, returns
\* None, or raises.
GenOutcomes == {"path", "None", "raise"}

\* Path(results_dir) / (md5(url) + ".md")
SavePath(url) == IF url = "http://a" THEN "md5(a).md" ELSE "md5(b).md"

\* --------------------------------------------------------------- actions
NoCall == [kind |-> "none", urls |-> <<>>]

NoRet ==
    [of |-> "none", kind |-> "none", urls |-> <<>>, value |-> <<>>,
     exc |-> "none", order |-> <<>>]

Batches == UNION {[1..n -> URLs] : n \in 0..MaxBatch}

\* No mapping returned by get_metrics yet.
NoSnap ==
    [taken |-> FALSE, shared |-> FALSE, own |-> ZeroMetrics,
     expect |-> ZeroMetrics]

\* No CheckerThread running.
NoThread ==
    [pc |-> "none", is_running |-> TRUE, urls |-> <<>>, idx |-> 0,
     emitted |-> <<>>, finished |-> FALSE, stopAt |-> 0]

Init ==
    /\ max_retries \in 0..MaxRetriesCfg
    /\ session = "none"
    /\ metrics = ZeroMetrics
    /\ unique_urls = {}
    /\ call = NoCall
    /\ tasks = <<>>
    /\ order = <<>>
    /\ ret = NoRet
    /\ spawned = 0
    /\ gets = 0
    /\ everChecked = {}
    /\ snap = NoSnap
    /\ thread = NoThread
    /\ data = NoUrls
    /\ processing_file = SaveData(NoUrls)
    /\ tlast = NoOp
    /\ tthreads = [t \in TrackerThreads |-> NewTrackerThread]
    /\ queue = <<>>
    /\ is_running = FALSE
    /\ stop_event = FALSE
    /\ queue_thread = NoQueueThread
    /\ executor = [id |-> 1, shutdown |-> FALSE]
    /\ futures = <<>>
    /\ pcaller = "idle"
    /\ phist = NoHistory

\* async with checker: __aenter__
AEnter ==
    /\ call.kind = "none"
    /\ session # "open"
    /\ session' = "open"
    /\ UNCHANGED <<max_retries, metrics, unique_urls, call, tasks, order,
                   ret, spawned, gets, everChecked>>

\* __aexit__: if self._session: close it (the attribute keeps the session)
AExit ==
    /\ call.kind = "none"
    /\ session = "open"
    /\ session' = "closed"
    /\ UNCHANGED <<max_retries, metrics, unique_urls, call, tasks, order,
                   ret, spawned, gets, everChecked>>

\* a caller awaits checker.check_url(u)
CallCheckUrl(u) ==
    /\ call.kind = "none"
    /\ spawned + 1 <= MaxTasks
    /\ call' = [kind |-> "check_url", urls |-> <<u>>]
    /\ tasks' = <<NewTask>>
    /\ order' = <<>>
    /\ ret' = NoRet
    /\ spawned' = spawned + 1
    /\ UNCHANGED <<max_retries, session, metrics, unique_urls, gets,
                   everChecked>>

\* (mutant) the counters reset at the start of every batch
CallCheckUrlsReset(us) ==
    /\ call.kind = "none"
    /\ spawned + Len(us) <= MaxTasks
    /\ call' = [kind |-> "check_urls", urls |-> us]
    /\ tasks' = [i \in 1..Len(us) |-> NewTask]
    /\ order' = <<>>
    /\ ret' = NoRet
    /\ spawned' = spawned + Len(us)
    /\ metrics' = ZeroMetrics
    /\ UNCHANGED <<max_retries, session, unique_urls, gets, everChecked>>

\* a caller awaits checker.check_urls(us): one safe_check_url per URL
CallCheckUrls(us) ==
    /\ call.kind = "none"
    /\ spawned + Len(us) <= MaxTasks
    /\ call' = [kind |-> "check_urls", urls |-> us]
    /\ tasks' = [i \in 1..Len(us) |-> NewTask]
    /\ order' = <<>>
    /\ ret' = NoRet
    /\ spawned' = spawned + Len(us)
    /\ UNCHANGED <<max_retries, session, metrics, unique_urls, gets,
                   everChecked>>

\* The effect of one step of task i on the shared state.
Commit(i, st, a) ==
    /\ tasks' = [tasks EXCEPT ![i] =
                    [a.task EXCEPT !.contrib =
                        AddDiff(@, metrics, a.metrics)]]
    /\ metrics' = a.metrics
    /\ unique_urls' = st.unique_urls
    /\ gets' = IF st.kind = "await" THEN gets + 1 ELSE gets
    /\ order' = IF Finished(a.task) THEN Append(order, i) ELSE order

\* (mutant) a suspension point between the dedup test and the dedup add:
\* a task that found its URL new yields, and adds and counts it when it is
\* resumed
StartYielding(i) ==
    /\ call.kind # "none"
    /\ i \in 1..Len(tasks)
    /\ \/ /\ tasks[i].pc = "created"
          /\ \A j \in 1..(i - 1) : tasks[j].pc # "created"
          /\ session # "none"
          /\ call.urls[i] \notin unique_urls
          /\ tasks' = [tasks EXCEPT ![i].pc = "tested"]
          /\ UNCHANGED <<metrics, unique_urls, gets, order, everChecked>>
       \/ /\ \/ tasks[i].pc = "tested"
             \/ /\ tasks[i].pc = "created"
                /\ \A j \in 1..(i - 1) : tasks[j].pc # "created"
                /\ session = "none" \/ call.urls[i] \in unique_urls
          /\ LET url == call.urls[i]
                 fresh == tasks[i].pc = "tested"
                 m == IF fresh THEN Inc(metrics, "unique_requests")
                      ELSE metrics
                 uu == IF fresh THEN unique_urls \cup {url} ELSE unique_urls
                 st == CheckUrlEnter(session, m, uu, url, max_retries)
                 a == AfterStep(tasks[i], call.kind = "check_urls", url, st,
                                max_retries)
             IN /\ Commit(i, st, a)
                /\ everChecked' =
                      IF st.kind = "raise" THEN everChecked
                      ELSE everChecked \cup {url}
    /\ UNCHANGED <<max_retries, session, call, ret, spawned>>

\* Task i runs from its start to its first suspension point.  The event
\* loop starts the tasks of a batch in the order gather was given them.
Start(i) ==
    /\ call.kind # "none"
    /\ i \in 1..Len(tasks)
    /\ tasks[i].pc = "created"
    /\ \A j \in 1..(i - 1) : tasks[j].pc # "created"
    /\ LET url == call.urls[i]
           st == CheckUrlEnter(session, metrics, unique_urls, url, max_retries)
           a == AfterStep(tasks[i], call.kind = "check_urls", url, st,
                          max_retries)
       IN /\ Commit(i, st, a)
          /\ everChecked' =
                IF st.kind = "raise" THEN everChecked
                ELSE everChecked \cup {url}
    /\ UNCHANGED <<max_retries, session, call, ret, spawned>>

\* session.get of task i answers with outcome o; the task runs on to its
\* next suspension point or to its end.  A closed session only raises.
Respond(i, o) ==
    /\ call.kind # "none"
    /\ i \in 1..Len(tasks)
    /\ tasks[i].pc = "awaiting"
    /\ session = "closed" => (o.kind = "raise" /\ o.exc = "Exception")
    /\ LET url == call.urls[i]
           t == [tasks[i] EXCEPT !.hist = Append(@, o)]
           st == CheckUrlResume(metrics, unique_urls, url, t.attempt, o,
                                max_retries)
           a == AfterStep(t, call.kind = "check_urls", url, st, max_retries)
       IN Commit(i, st, a)
    /\ UNCHANGED <<max_retries, session, call, ret, spawned, everChecked>>

\* The call returns to its caller: check_url its result or its exception,
\* check_urls what gather collected.
Return ==
    /\ call.kind # "none"
    /\ \A i \in 1..Len(tasks) : Finished(tasks[i])
    /\ ret' =
         IF \E i \in 1..Len(tasks) : tasks[i].pc = "raised"
         THEN [of |-> call.kind, kind |-> "raise", urls |-> call.urls,
               value |-> <<>>, exc |-> tasks[order[1]].exc, order |-> order]
         ELSE [of |-> call.kind, kind |-> "value", urls |-> call.urls,
               value |-> Gather(tasks, order), exc |-> "none",
               order |-> order]
    /\ call' = NoCall
    /\ tasks' = <<>>
    /\ order' = <<>>
    /\ UNCHANGED <<max_retries, session, metrics, unique_urls, spawned, gets,
                   everChecked>>

\* The checker driven by arbitrary callers.
Next ==
    \/ AEnter /\ UNCHANGED ext
    \/ AExit /\ UNCHANGED ext
    \/ \E u \in URLs : CallCheckUrl(u) /\ UNCHANGED ext
    \/ \E us \in Batches : CallCheckUrls(us) /\ UNCHANGED ext
    \/ \E i \in 1..MaxBatch : Start(i) /\ UNCHANGED ext
    \/ \E i \in 1..MaxBatch, o \in Outcomes : Respond(i, o) /\ UNCHANGED ext
    \/ Return /\ UNCHANGED ext

Spec == Init /\ [][Next]_vars

\* ================================================================ claims
\* ------------------------------------------------------------ get_metrics
\* The keys a caller of get_metrics writes to in the mapping it was given.
SnapKeys == {"total_requests", "successful_requests"}

\* The outcomes of session.get while snapshots are taken.
SnapOutcomes ==
    {o \in Outcomes :
        \/ o.kind = "response" /\ o.status = 200
        \/ o.kind = "raise" /\ o.exc \in {"TimeoutError", "Exception"}}

\* (mutant) get_metrics handing out the counters themselves
GetMetricsResultAlias(m) == [shared |-> TRUE, own |-> m]

\* return self._metrics.copy(): a new mapping with the counters' values
GetMetricsResult(m) == [shared |-> FALSE, own |-> m]

\* What the caller reads in the mapping it holds.
SnapView == IF snap.shared THEN metrics ELSE snap.own

\* A caller calls get_metrics, in any state of the checker.
GetMetrics ==
    /\ LET g == GetMetricsResult(metrics)
       IN snap' = [taken |-> TRUE, shared |-> g.shared, own |-> g.own,
                   expect |-> metrics]
    /\ UNCHANGED <<max_retries, session, metrics, unique_urls, call, tasks,
                   order, ret, spawned, gets, everChecked, thread, outside>>

\* The caller overwrites entry k of the mapping it was given.
CallerWrites(k) ==
    /\ snap.taken
    /\ SnapView[k] # -1
    /\ IF snap.shared
       THEN /\ metrics' = [metrics EXCEPT ![k] = -1]
            /\ snap' = [snap EXCEPT !.expect[k] = -1]
       ELSE /\ metrics' = metrics
            /\ snap' = [snap EXCEPT !.own[k] = -1, !.expect[k] = -1]
    /\ UNCHANGED <<max_retries, session, unique_urls, call, tasks, order, ret,
                   spawned, gets, everChecked, thread, outside>>

\* Single checks on one checker, with a caller that takes snapshots of the
\* counters and writes to them.
NextSnapshot ==
    \/ AEnter /\ UNCHANGED ext
    \/ \E u \in URLs : CallCheckUrl(u) /\ UNCHANGED ext
    \/ Start(1) /\ UNCHANGED ext
    \/ \E o \in SnapOutcomes : Respond(1, o) /\ UNCHANGED ext
    \/ Return /\ UNCHANGED ext
    \/ GetMetrics
    \/ \E k \in SnapKeys : CallerWrites(k)

SpecSnapshot == Init /\ [][NextSnapshot]_vars

\* ----------------------------------------------------------- CheckerThread
\* The URLs the thread's parser finds in the bookmarks file.
MaxThreadUrls == 2

ThreadBatches == UNION {[1..n -> URLs] : n \in 0..MaxThreadUrls}

\* run() up to the scope: the bookmarks are parsed; without them
\* check_urls returns before a checker exists.
ThreadStart(us, parsed) ==
    /\ thread.pc = "none"
    /\ call.kind = "none"
    /\ session = "none"
    /\ thread' = [thread EXCEPT !.pc = IF parsed THEN "enter" ELSE "returned",
                                !.urls = IF parsed THEN us ELSE <<>>,
                                !.idx = 1]
    /\ UNCHANGED <<max_retries, session, metrics, unique_urls, call, tasks,
                   order, ret, spawned, gets, everChecked, snap, outside>>

\* async with URLChecker(...) as checker: the scope is entered
ThreadEnter ==
    /\ thread.pc = "enter"
    /\ AEnter
    /\ thread' = [thread EXCEPT !.pc = "loop"]
    /\ UNCHANGED <<snap, outside>>

\* (mutant) the loop going on to the next URL whatever _is_running says
ThreadLoopIgnoringStop ==
    /\ thread.pc = "loop"
    /\ IF thread.idx > Len(thread.urls)
       THEN /\ thread' = [thread EXCEPT !.pc = "exit"]
            /\ UNCHANGED <<max_retries, session, metrics, unique_urls, call,
                           tasks, order, ret, spawned, gets, everChecked>>
       ELSE /\ CallCheckUrl(thread.urls[thread.idx])
            /\ thread' = [thread EXCEPT !.pc = "await"]
    /\ UNCHANGED <<snap, outside>>

\* for url in urls: if not self._is_running: break; else await
\* checker.check_url(url)
ThreadLoop ==
    /\ thread.pc = "loop"
    /\ IF thread.idx > Len(thread.urls) \/ ~thread.is_running
       THEN /\ thread' = [thread EXCEPT !.pc = "exit"]
            /\ UNCHANGED <<max_retries, session, metrics, unique_urls, call,
                           tasks, order, ret, spawned, gets, everChecked>>
       ELSE /\ CallCheckUrl(thread.urls[thread.idx])
            /\ thread' = [thread EXCEPT !.pc = "await"]
    /\ UNCHANGED <<snap, outside>>

\* The check of the current URL has ended: url_checked is emitted with its
\* result, or by the except handler when check_url or the first emit
\* raised (emit(url, True, None) on a signal whose third argument is a str
\* may raise), and the loop goes on.
ThreadGotResult(emitFails) ==
    /\ thread.pc = "await"
    /\ Return
    /\ LET t == tasks[1]
           ok == t.pc = "done" /\ t.result.is_available /\ ~emitFails
       IN thread' =
            [thread EXCEPT !.pc = "loop", !.idx = @ + 1,
                           !.emitted = Append(@, [url |-> call.urls[1],
                                                  is_available |-> ok])]
    /\ UNCHANGED <<snap, outside>>

\* stop(): self._is_running = False, from the GUI thread at any moment of
\* the run
Stop ==
    /\ thread.pc \notin {"none", "finished", "aborted"}
    /\ thread.is_running
    /\ thread' = [thread EXCEPT !.is_running = FALSE,
                                !.stopAt = IF thread.pc = "await"
                                           THEN thread.idx ELSE 0]
    /\ UNCHANGED <<max_retries, session, metrics, unique_urls, call, tasks,
                   order, ret, spawned, gets, everChecked, snap, outside>>

\* (mutant) the scope left without closing the session
ThreadExitLeak ==
    /\ thread.pc = "exit"
    /\ thread' = [thread EXCEPT !.pc = "returned"]
    /\ UNCHANGED <<max_retries, session, metrics, unique_urls, call, tasks,
                   order, ret, spawned, gets, everChecked, snap, outside>>

\* The loop is over: the scope ends through __aexit__.
ThreadExit ==
    /\ thread.pc = "exit"
    /\ AExit
    /\ thread' = [thread EXCEPT !.pc = "returned"]
    /\ UNCHANGED <<snap, outside>>

\* An exception leaves the scope (one that `except Exception` does not
\* catch at the await, or one raised by the handler itself): __aexit__
\* closes the session, the exception leaves check_urls and run(), the
\* check in flight is abandoned and finished is not emitted.
ThreadAbort ==
    /\ thread.pc = "await"
    /\ session' = "closed"
    /\ call' = NoCall
    /\ tasks' = <<>>
    /\ order' = <<>>
    /\ thread' = [thread EXCEPT !.pc = "aborted"]
    /\ UNCHANGED <<max_retries, metrics, unique_urls, ret, spawned, gets,
                   everChecked, snap, outside>>

\* check_urls has returned: run() closes the loop and emits finished
ThreadFinish ==
    /\ thread.pc = "returned"
    /\ thread' = [thread EXCEPT !.pc = "finished", !.finished = TRUE]
    /\ UNCHANGED <<max_retries, session, metrics, unique_urls, call, tasks,
                   order, ret, spawned, gets, everChecked, snap, outside>>

\* The steps of the thread's own control flow.
ThreadStep ==
    \/ \E us \in ThreadBatches, parsed \in BOOLEAN : ThreadStart(us, parsed)
    \/ ThreadEnter
    \/ ThreadLoop
    \/ \E emitFails \in BOOLEAN : ThreadGotResult(emitFails)
    \/ ThreadExit
    \/ ThreadFinish

\* The steps of the check the thread awaits.
CheckStep ==
    \/ Start(1) /\ UNCHANGED ext
    \/ \E o \in Outcomes : Respond(1, o) /\ UNCHANGED ext

\* One run of a CheckerThread with its own checker.
NextThread ==
    \/ ThreadStep
    \/ CheckStep
    \/ Stop
    \/ ThreadAbort

SpecThread == Init /\ [][NextThread]_vars

\* The event loop runs the thread's coroutine whenever it can go on, and
\* session.get, called with a timeout, answers or raises.
SpecThreadFair ==
    /\ SpecThread
    /\ WF_vars(ThreadStep)
    /\ WF_vars(CheckStep)

\* processing.json after method op, called with url on the table d, has
\* left the table as after.
Written(op, d, url, after) ==
    IF Saves(op, d, url) THEN SaveData(after) ELSE processing_file

\* ------------------------------------------- ProcessingTracker: callers
\* A tracker method called by one caller: the dict it leaves and the
\* history of the call.
TrackerCall(op, url, arg, error, after, result) ==
    /\ data' = after
    /\ processing_file' = Written(op, data, url, after)
    /\ tlast' = [op |-> op, url |-> url, arg |-> arg, error |-> error,
                 before |-> data, result |-> result]
    /\ UNCHANGED <<max_retries, session, metrics, unique_urls, call, tasks,
                   order, ret, spawned, gets, everChecked, snap, thread,
                   tthreads, proc>>

TAddUrl(url, title) ==
    TrackerCall("add_url", url, title, "None", AddUrl(data, url, title), {})

TUpdateCheckResult(url, success, error) ==
    TrackerCall("update_check_result", url, success, error,
                UpdateCheckResult(data, url, success, error), {})

TUpdateMarkdownPath(url, markdown_path) ==
    TrackerCall("update_markdown_path", url, markdown_path, "None",
                UpdateMarkdownPath(data, url, markdown_path), {})

TGetPendingUrls ==
    TrackerCall("get_pending_urls", "", "", "None", data,
                GetPendingUrls(data))

TResetFailed ==
    TrackerCall("reset_failed", "", "", "None", ResetFailed(data), {})

TUpdateUrlStatus(url, status) ==
    TrackerCall("update_url_status", url, status, "None",
                UpdateUrlStatus(data, url, status, "None"), {})

\* One tracker, one caller at a time, any sequence of calls.
NextTracker ==
    \/ \E url \in URLs, title \in Titles : TAddUrl(url, title)
    \/ \E url \in URLs, success \in CheckOutcomes, error \in ErrorTexts :
          TUpdateCheckResult(url, success, error)
    \/ \E url \in URLs, markdown_path \in Paths :
          TUpdateMarkdownPath(url, markdown_path)
    \/ TGetPendingUrls
    \/ TResetFailed
    \/ \E url \in URLs, status \in SetStatuses : TUpdateUrlStatus(url, status)

SpecTracker == Init /\ [][NextTracker]_vars

\* (mutant) add_url without the lock: the thread reads the dict, and in a
\* later step writes it back with its record added
TrackerThreadStepUnlocked(t) ==
    /\ tthreads[t].i <= Len(TestUrls[t])
    /\ LET th == tthreads[t]
           item == TestUrls[t][th.i]
       IN CASE th.pc = "add_url" ->
                 /\ data' = data
                 /\ processing_file' = processing_file
                 /\ tthreads' = [tthreads EXCEPT ![t].pc = "add_url_write",
                                                 ![t].seen = data]
            [] th.pc = "add_url_write" ->
                 /\ data' = AddUrl(th.seen, item.url, item.title)
                 /\ processing_file' =
                       Written("add_url", th.seen, item.url, data')
                 /\ tthreads' =
                       [tthreads EXCEPT ![t].pc = "update_check_result",
                                        ![t].seen = NoUrls]
            [] th.pc = "update_check_result" ->
                 /\ data' = UpdateCheckResult(data, item.url, "True", "None")
                 /\ processing_file' =
                       Written("update_check_result", data, item.url, data')
                 /\ tthreads' =
                       [tthreads EXCEPT ![t].pc = "update_markdown_path"]
            [] OTHER ->
                 /\ data' = UpdateMarkdownPath(data, item.url, item.path)
                 /\ processing_file' =
                       Written("update_markdown_path", data, item.url, data')
                 /\ tthreads' = [tthreads EXCEPT ![t].pc = "add_url",
                                                 ![t].i = @ + 1]
    /\ UNCHANGED <<max_retries, session, metrics, unique_urls, call, tasks,
                   order, ret, spawned, gets, everChecked, snap, thread,
                   tlast, proc>>

\* Thread t makes its next call: add_url, update_check_result(url, True)
\* and update_markdown_path(url, path) for each of its URLs.  Every method
\* runs under self.lock from its first read to its last write.
TrackerThreadStep(t) ==
    /\ tthreads[t].i <= Len(TestUrls[t])
    /\ LET th == tthreads[t]
           item == TestUrls[t][th.i]
       IN CASE th.pc = "add_url" ->
                 /\ data' = AddUrl(data, item.url, item.title)
                 /\ processing_file' =
                       Written("add_url", data, item.url, data')
                 /\ tthreads' =
                       [tthreads EXCEPT ![t].pc = "update_check_result"]
            [] th.pc = "update_check_result" ->
                 /\ data' = UpdateCheckResult(data, item.url, "True", "None")
                 /\ processing_file' =
                       Written("update_check_result", data, item.url, data')
                 /\ tthreads' =
                       [tthreads EXCEPT ![t].pc = "update_markdown_path"]
            [] OTHER ->
                 /\ data' = UpdateMarkdownPath(data, item.url, item.path)
                 /\ processing_file' =
                       Written("update_markdown_path", data, item.url, data')
                 /\ tthreads' = [tthreads EXCEPT ![t].pc = "add_url",
                                                 ![t].i = @ + 1]
    /\ UNCHANGED <<max_retries, session, metrics, unique_urls, call, tasks,
                   order, ret, spawned, gets, everChecked, snap, thread,
                   tlast, proc>>

\* Several threads on one tracker.
NextTrackerThreads == \E t \in TrackerThreads : TrackerThreadStep(t)

SpecTrackerThreads == Init /\ [][NextTrackerThreads]_vars

\* --------------------------------------------- ContentProcessor: threads
\* The calls of add_url, the calls of start_processing that start a run,
\* and the workers of an executor.
MaxAdds == 2

MaxStarts == 2

MaxWorkers == 2

\* What the processor's steps leave alone outside the processor and its
\* tracker's dict.
notProc ==
    <<max_retries, session, metrics, unique_urls, call, tasks, order, ret,
      spawned, gets, everChecked, snap, thread, tlast, tthreads>>

\* The lists with the elements of S, each once.
Orderings(S) ==
    {q \in [1..Cardinality(S) -> S] : \A x \in S : \E n \in DOMAIN q : q[n] = x}

\* add_url, under self._lock: the URL goes to the tracker and into the
\* queue
PAddUrl(url) ==
    /\ pcaller = "idle"
    /\ phist.adds < MaxAdds
    /\ data' = AddUrl(data, url, "Test")
    /\ processing_file' = Written("add_url", data, url, data')
    /\ queue' = Append(queue, url)
    /\ phist' = [phist EXCEPT !.last = "add_url", !.adds = @ + 1]
    /\ UNCHANGED <<is_running, stop_event, queue_thread, executor, futures,
                   pcaller, notProc>>

\* (mutant) start_processing without its test of is_running
PStartBeginAlways ==
    /\ pcaller = "idle"
    /\ phist.starts < MaxStarts
    /\ stop_event' = FALSE
    /\ pcaller' = "start_processing"
    /\ UNCHANGED <<data, processing_file,
                   queue, is_running, queue_thread, executor, futures,
                   phist, notProc>>

\* start_processing while not running, under self._lock, up to
\* stop_event.clear()
PStartBegin ==
    /\ pcaller = "idle"
    /\ ~is_running
    /\ phist.starts < MaxStarts
    /\ stop_event' = FALSE
    /\ pcaller' = "start_processing"
    /\ UNCHANGED <<data, processing_file,
                   queue, is_running, queue_thread, executor, futures,
                   phist, notProc>>

\* start_processing from the new Thread object to is_running = True: the
\* pending URLs are put into the queue
PStartEnd ==
    /\ pcaller = "start_processing"
    /\ \E pending_urls \in Orderings(GetPendingUrls(data)) :
          queue' = queue \o pending_urls
    /\ is_running' = TRUE
    /\ queue_thread' = [pc |-> "created", url |-> ""]
    /\ pcaller' = "start_thread"
    /\ UNCHANGED <<data, processing_file,
                   stop_event, executor, futures, phist, notProc>>

\* self.queue_thread.start(); start_processing returns
PStartThread ==
    /\ pcaller = "start_thread"
    /\ queue_thread' = [queue_thread EXCEPT !.pc = "loop"]
    /\ pcaller' = "idle"
    /\ phist' = [phist EXCEPT !.last = "start_processing", !.starts = @ + 1,
                              !.threads = @ + 1]
    /\ UNCHANGED <<data, processing_file,
                   queue, is_running, stop_event, executor, futures, notProc>>

\* stop_processing while running, under self._lock: stop_event.set() and
\* is_running = False
PStopBegin ==
    /\ pcaller = "idle"
    /\ is_running
    /\ stop_event' = TRUE
    /\ is_running' = FALSE
    /\ pcaller' = "stop_shutdown"
    /\ UNCHANGED <<data, processing_file,
                   queue, queue_thread, executor, futures, phist,
                   notProc>>

\* self.executor.shutdown(wait=True) is called: the executor takes no
\* further submit
PStopShutdown ==
    /\ pcaller = "stop_shutdown"
    /\ executor' = [executor EXCEPT !.shutdown = TRUE]
    /\ pcaller' = "stop_wait"
    /\ UNCHANGED <<data, processing_file,
                   queue, is_running, stop_event, queue_thread,
                   futures, phist, notProc>>

\* shutdown returns when every call submitted to the executor has ended;
\* self.executor = ThreadPoolExecutor(...)
PStopNewExecutor ==
    /\ pcaller = "stop_wait"
    /\ \A k \in DOMAIN futures :
          futures[k].ex = executor.id => futures[k].pc = "done"
    /\ executor' = [id |-> executor.id + 1, shutdown |-> FALSE]
    /\ pcaller' = "stop_join"
    /\ UNCHANGED <<data, processing_file,
                   queue, is_running, stop_event, queue_thread,
                   futures, phist, notProc>>

\* self.queue_thread.join() returns when the queue thread has ended; the
\* queue is emptied and stop_processing returns
PStopJoin ==
    /\ pcaller = "stop_join"
    /\ queue_thread.pc = "exited"
    /\ queue_thread' = NoQueueThread
    /\ queue' = <<>>
    /\ pcaller' = "idle"
    /\ phist' = [phist EXCEPT !.last = "stop_processing",
                              !.everStopped = TRUE, !.threads = @ - 1]
    /\ UNCHANGED <<data, processing_file,
                   is_running, stop_event, executor, futures, notProc>>

\* _process_queue: the loop condition, and queue.get when it holds (an
\* empty queue lets the thread come back to the condition)
QLoop ==
    /\ queue_thread.pc = "loop"
    /\ IF is_running /\ ~stop_event
       THEN /\ queue # <<>>
            /\ queue' = Tail(queue)
            /\ queue_thread' = [pc |-> "got", url |-> Head(queue)]
       ELSE /\ queue' = queue
            /\ queue_thread' = [pc |-> "exited", url |-> ""]
    /\ UNCHANGED <<data, processing_file,
                   is_running, stop_event, executor, futures, pcaller,
                   phist, notProc>>

\* if not self.stop_event.is_set()
QCheck ==
    /\ queue_thread.pc = "got"
    /\ queue_thread' =
          IF ~stop_event THEN [queue_thread EXCEPT !.pc = "submit"]
          ELSE [pc |-> "loop", url |-> ""]
    /\ UNCHANGED <<data, processing_file,
                   queue, is_running, stop_event, executor, futures,
                   pcaller, phist, notProc>>

\* self.executor.submit(self.process_url, url): on the executor the
\* attribute holds now; an executor that was shut down raises, which the
\* loop logs
QSubmit ==
    /\ queue_thread.pc = "submit"
    /\ futures' =
          IF executor.shutdown THEN futures
          ELSE Append(futures, [url |-> queue_thread.url,
                                ex |-> executor.id, pc |-> "queued"])
    /\ queue_thread' = [pc |-> "loop", url |-> ""]
    /\ UNCHANGED <<data, processing_file,
                   queue, is_running, stop_event, executor, pcaller,
                   phist, notProc>>

\* A worker of the executor takes call k, the oldest one waiting, and
\* enters process_url
WTake(k) ==
    /\ futures[k].pc = "queued"
    /\ \A j \in 1..(k - 1) :
          futures[j].ex = futures[k].ex => futures[j].pc # "queued"
    /\ Cardinality({j \in DOMAIN futures :
                       /\ futures[j].ex = futures[k].ex
                       /\ futures[j].pc \notin {"queued", "done"}})
          < MaxWorkers
    /\ futures' = [futures EXCEPT ![k].pc = "entered"]
    /\ UNCHANGED <<data, processing_file,
                   queue, is_running, stop_event, queue_thread,
                   executor, pcaller, phist, notProc>>

\* if self.stop_event.is_set(): return False
WBegin(k) ==
    /\ futures[k].pc = "entered"
    /\ futures' = [futures EXCEPT ![k].pc =
                      IF stop_event THEN "done" ELSE "begun"]
    /\ UNCHANGED <<data, processing_file,
                   queue, is_running, stop_event, queue_thread,
                   executor, pcaller, phist, notProc>>

\* self.tracker.update_url_status(url, "processing")
WProcessing(k) ==
    /\ futures[k].pc = "begun"
    /\ data' = UpdateUrlStatus(data, futures[k].url, "processing", "None")
    /\ processing_file' =
          Written("update_url_status", data, futures[k].url, data')
    /\ futures' = [futures EXCEPT ![k].pc = "generating"]
    /\ UNCHANGED <<queue, is_running, stop_event, queue_thread, executor,
                   pcaller, phist, notProc>>

\* (mutant) a failed generation that leaves the status as it is
WGenerateNoErrorStatus(k, g) ==
    /\ futures[k].pc = "generating"
    /\ IF g = "path"
       THEN /\ data' = UpdateUrlStatus(data, futures[k].url, "completed",
                                       "None")
            /\ futures' = [futures EXCEPT ![k].pc = "completed"]
            /\ phist' = [phist EXCEPT !.generated = @ \cup {futures[k].url}]
       ELSE /\ data' = data
            /\ futures' = [futures EXCEPT ![k].pc = "done"]
            /\ phist' = [phist EXCEPT !.failed = @ \cup {futures[k].url}]
    /\ processing_file' =
          Written("update_url_status", data, futures[k].url, data')
    /\ UNCHANGED <<queue, is_running, stop_event, queue_thread, executor,
                   pcaller, notProc>>

\* generate_markdown answers with g, and the status is set: completed for
\* a path, error for None and in the except clause
WGenerate(k, g) ==
    /\ futures[k].pc = "generating"
    /\ IF g = "path"
       THEN /\ data' = UpdateUrlStatus(data, futures[k].url, "completed",
                                       "None")
            /\ futures' = [futures EXCEPT ![k].pc = "completed"]
            /\ phist' = [phist EXCEPT !.generated = @ \cup {futures[k].url}]
       ELSE /\ data' = UpdateUrlStatus(data, futures[k].url, "error", "None")
            /\ futures' = [futures EXCEPT ![k].pc = "done"]
            /\ phist' = [phist EXCEPT !.failed = @ \cup {futures[k].url}]
    /\ processing_file' =
          Written("update_url_status", data, futures[k].url, data')
    /\ UNCHANGED <<queue, is_running, stop_event, queue_thread, executor,
                   pcaller, notProc>>

\* self.tracker.update_markdown_path(url, result); process_url returns
WPath(k) ==
    /\ futures[k].pc = "completed"
    /\ data' = UpdateMarkdownPath(data, futures[k].url,
                                  SavePath(futures[k].url))
    /\ futures' = [futures EXCEPT ![k].pc = "done"]
    /\ processing_file' =
          Written("update_markdown_path", data, futures[k].url, data')
    /\ UNCHANGED <<queue, is_running, stop_event, queue_thread, executor,
                   pcaller, phist, notProc>>

\* The steps of the caller that is inside start_processing or
\* stop_processing.
CallerStep ==
    \/ PStartEnd
    \/ PStartThread
    \/ PStopShutdown
    \/ PStopNewExecutor
    \/ PStopJoin

QueueThreadStep ==
    \/ QLoop
    \/ QCheck
    \/ QSubmit

WorkerStep ==
    \E k \in DOMAIN futures :
        \/ WTake(k)
        \/ WBegin(k)
        \/ WProcessing(k)
        \/ \E g \in GenOutcomes : WGenerate(k, g)
        \/ WPath(k)

\* One content processor with its callers, its queue thread and its
\* workers.
NextProcessor ==
    \/ \E url \in URLs : PAddUrl(url)
    \/ PStartBegin
    \/ PStopBegin
    \/ CallerStep
    \/ QueueThreadStep
    \/ WorkerStep

SpecProcessor == Init /\ [][NextProcessor]_vars

\* Every thread that can go on does: the caller inside a method, the queue
\* thread, the workers.
SpecProcessorFair ==
    /\ SpecProcessor
    /\ WF_vars(CallerStep)
    /\ WF_vars(QueueThreadStep)
    /\ WF_vars(WorkerStep)

TaskIds == 1..Len(tasks)

FailureCounters ==
    {"failed_requests", "timeout_errors", "network_errors", "ssl_errors",
     "other_errors"}

\* C1: check_urls returns exactly one result per input URL, the i-th result
\* being that of the i-th input URL, whatever order the tasks finished in.
C1_BatchResultsInInputOrder ==
    ret.of = "check_urls" =>
        /\ ret.kind = "value"
        /\ Len(ret.value) = Len(ret.urls)
        /\ \A i \in 1..Len(ret.urls) : ret.value[i].url = ret.urls[i]

\* A batch of two different URLs whose second task finished first, one
\* check failing and the other succeeding.
C1_Witness ==
    /\ ret.of = "check_urls"
    /\ Len(ret.urls) = 2
    /\ ret.urls[1] # ret.urls[2]
    /\ ret.order = <<2, 1>>
    /\ ~ret.value[1].is_available
    /\ ret.value[2].is_available

\* C2: safe_check_url never raises: an exception escaping check_url becomes
\* a result with status 0, is_available false, the exception's message as
\* error and retry_count = max_retries, and failed_requests grows by exactly
\* one for that URL (no other counter moves); check_urls returns a value.
C2_SafeCheckAbsorbsExceptions ==
    /\ ret.of = "check_urls" => ret.kind = "value"
    /\ call.kind = "check_urls" =>
         \A i \in TaskIds :
            /\ tasks[i].pc # "raised"
            /\ tasks[i].exc # "none" =>
                 /\ tasks[i].pc = "done"
                 /\ tasks[i].result.url = call.urls[i]
                 /\ tasks[i].result.status = 0
                 /\ ~tasks[i].result.is_available
                 /\ tasks[i].result.error.present
                 /\ tasks[i].result.error.prefix = ""
                 /\ tasks[i].result.error.detail = Str(tasks[i].exc)
                 /\ tasks[i].result.retry_count = max_retries
                 /\ tasks[i].contrib =
                        [ZeroMetrics EXCEPT !["failed_requests"] = 1]

\* Both tasks of a batch on a checker without session ended with the
\* session-not-initialized message as their error.
C2_Witness ==
    /\ call.kind = "check_urls"
    /\ Len(tasks) = 2
    /\ \A i \in TaskIds :
          /\ tasks[i].pc = "done"
          /\ tasks[i].exc = "RuntimeError"
          /\ tasks[i].result.error.detail = NotInitialized
    /\ metrics["failed_requests"] = 2

\* C3: a direct check_url raises exactly when the session is not
\* initialized; the raising step is its first, without retry or backoff,
\* issues no request and leaves the counters and the dedup set unchanged.
\* On a set session no step of check_url raises, whatever the outcome.
C3_RaisesOnlyWithoutSession ==
    [][\A i \in TaskIds :
          /\ (Len(tasks') = Len(tasks) /\ tasks[i].pc # "raised"
                /\ tasks'[i].pc = "raised") =>
                /\ session = "none"
                /\ tasks[i].pc = "created"
                /\ tasks'[i].attempt = 0
                /\ tasks'[i].sleeps = 0
                /\ tasks'[i].hist = <<>>
                /\ gets' = gets
                /\ metrics' = metrics
                /\ unique_urls' = unique_urls
          /\ (Len(tasks') = Len(tasks) /\ call.kind = "check_url"
                /\ session = "none" /\ tasks[i].pc = "created"
                /\ tasks'[i] # tasks[i]) =>
                tasks'[i].pc = "raised"
      ]_vars

\* A direct check_url on a checker without session has raised.
C3_WitnessRaised ==
    /\ call.kind = "check_url"
    /\ tasks[1].pc = "raised"
    /\ tasks[1].exc = "RuntimeError"
    /\ session = "none"

Available(o) == o.kind = "response" /\ 200 <= o.status /\ o.status <= 399

Raised(o, e) == o.kind = "raise" /\ o.exc = e

\* C4: a response with status 200..399 on the first attempt gives
\* is_available, that status, retry_count 0 and no error; one GET was
\* issued, successful_requests grew by 1 and no failure counter changed.
C4_FirstAttemptSuccess ==
    \A i \in TaskIds :
        (Len(tasks[i].hist) >= 1 /\ Available(tasks[i].hist[1])) =>
            /\ tasks[i].pc = "done"
            /\ Len(tasks[i].hist) = 1
            /\ tasks[i].result.url = call.urls[i]
            /\ tasks[i].result.is_available
            /\ tasks[i].result.status = tasks[i].hist[1].status
            /\ tasks[i].result.retry_count = 0
            /\ ~tasks[i].result.error.present
            /\ tasks[i].contrib["total_requests"] = 1
            /\ tasks[i].contrib["successful_requests"] = 1
            /\ \A k \in FailureCounters : tasks[i].contrib[k] = 0

\* A first attempt answered with status 399 (the top of the window) with
\* room for retries left.
C4_Witness ==
    \E i \in TaskIds :
        /\ max_retries = 2
        /\ tasks[i].hist = <<[kind |-> "response", status |-> 399,
                              exc |-> "none"]>>
        /\ tasks[i].pc = "done"

\* C5: max_retries consecutive timeouts (max_retries >= 1) end the check
\* with status 0, is_available false, error "Timeout" and retry_count =
\* max_retries; timeout_errors and failed_requests grew by exactly 1 and
\* total_requests by exactly max_retries.  The same for network errors,
\* with network_errors and an error text starting with "Network error".
C5_ExhaustedRetries ==
    \A i \in TaskIds :
        LET h == tasks[i].hist
            t == tasks[i]
            Exhausted(e) ==
                /\ max_retries >= 1
                /\ Len(h) = max_retries
                /\ \A k \in 1..Len(h) : Raised(h[k], e)
            Terminal(counter) ==
                /\ t.pc = "done"
                /\ t.result.status = 0
                /\ ~t.result.is_available
                /\ t.result.retry_count = max_retries
                /\ t.contrib[counter] = 1
                /\ t.contrib["failed_requests"] = 1
                /\ t.contrib["total_requests"] = max_retries
        IN /\ Exhausted("TimeoutError") =>
                /\ Terminal("timeout_errors")
                /\ t.result.error = Err("Timeout", "")
                /\ t.contrib["network_errors"] = 0
           /\ Exhausted("ClientError") =>
                /\ Terminal("network_errors")
                /\ t.result.error.present
                /\ t.result.error.prefix = "Network error: "
                /\ t.contrib["timeout_errors"] = 0

\* Two checks on a checker with max_retries = 2 ended, one after two
\* timeouts and one after two network errors.
C5_Witness ==
    /\ max_retries = 2
    /\ \E i \in TaskIds :
          /\ tasks[i].pc = "done"
          /\ Len(tasks[i].hist) = 2
          /\ \A k \in 1..2 : Raised(tasks[i].hist[k], "TimeoutError")
    /\ \E i \in TaskIds :
          /\ tasks[i].pc = "done"
          /\ Len(tasks[i].hist) = 2
          /\ \A k \in 1..2 : Raised(tasks[i].hist[k], "ClientError")

\* C6: attempts 1..k-1 failing with network errors and attempt k answered
\* with a 2xx/3xx status give is_available, no error, retry_count = k-1;
\* total_requests grew by k, successful_requests by 1, and timeout_errors,
\* network_errors and failed_requests did not change.
C6_SuccessAfterRetries ==
    \A i \in TaskIds :
        LET h == tasks[i].hist
            t == tasks[i]
            k == Len(h)
        IN (/\ k >= 1
            /\ Available(h[k])
            /\ \A j \in 1..(k - 1) : Raised(h[j], "ClientError")) =>
              /\ k <= max_retries
              /\ t.pc = "done"
              /\ t.result.is_available
              /\ ~t.result.error.present
              /\ t.result.retry_count = k - 1
              /\ t.contrib["total_requests"] = k
              /\ t.contrib["successful_requests"] = 1
              /\ t.contrib["timeout_errors"] = 0
              /\ t.contrib["network_errors"] = 0
              /\ t.contrib["failed_requests"] = 0

\* A check that succeeded on its second and last attempt after a network
\* error on the first.
C6_Witness ==
    \E i \in TaskIds :
        /\ max_retries = 2
        /\ tasks[i].pc = "done"
        /\ Len(tasks[i].hist) = 2
        /\ Raised(tasks[i].hist[1], "ClientError")
        /\ Available(tasks[i].hist[2])

\* A TLS failure: an exception that is an ssl.SSLError.
TLSError(o) == o.kind = "raise" /\ IsInstance(o.exc, "SSLError")

\* C7: a TLS failure on the first attempt is never retried: the check is
\* over after that one attempt (total_requests grew by 1), ssl_errors grew
\* by exactly 1, the result has status 0, is_available false, an SSL error
\* text and retry_count 0, for every max_retries.
C7_TLSNeverRetried ==
    \A i \in TaskIds :
        (Len(tasks[i].hist) >= 1 /\ TLSError(tasks[i].hist[1])) =>
            /\ tasks[i].pc = "done"
            /\ Len(tasks[i].hist) = 1
            /\ tasks[i].contrib["total_requests"] = 1
            /\ tasks[i].contrib["ssl_errors"] = 1
            /\ tasks[i].result.status = 0
            /\ ~tasks[i].result.is_available
            /\ tasks[i].result.error.present
            /\ tasks[i].result.error.prefix = "SSL error: "
            /\ tasks[i].result.retry_count = 0

\* C8: too-many-redirects at attempt a ends the check at once: status 0,
\* is_available false, final_url absent, retry_count = a-1, failed_requests
\* grew by exactly 1, no further GET was issued and timeout_errors and
\* network_errors did not change.
C8_RedirectsNeverRetried ==
    \A i \in TaskIds :
        LET h == tasks[i].hist
            t == tasks[i]
            a == Len(h)
        IN (\E k \in 1..a : Raised(h[k], "TooManyRedirects")) =>
              /\ Raised(h[a], "TooManyRedirects")
              /\ \A k \in 1..(a - 1) : ~Raised(h[k], "TooManyRedirects")
              /\ t.pc = "done"
              /\ t.attempt = a
              /\ t.result.status = 0
              /\ ~t.result.is_available
              /\ t.result.final_url = "None"
              /\ t.result.retry_count = a - 1
              /\ t.contrib["failed_requests"] = 1
              /\ t.contrib["total_requests"] = a
              /\ t.contrib["timeout_errors"] = 0
              /\ t.contrib["network_errors"] = 0

\* Too-many-redirects on the first attempt of one check (retries left) and
\* on the second attempt of another, after a timeout.
C8_Witness ==
    /\ max_retries = 2
    /\ \E i \in TaskIds :
          /\ tasks[i].pc = "done"
          /\ Len(tasks[i].hist) = 1
          /\ Raised(tasks[i].hist[1], "TooManyRedirects")
    /\ \E i \in TaskIds :
          /\ tasks[i].pc = "done"
          /\ Len(tasks[i].hist) = 2
          /\ Raised(tasks[i].hist[1], "TimeoutError")
          /\ Raised(tasks[i].hist[2], "TooManyRedirects")

\* C9: unique_requests is the number of distinct URLs ever checked, each
\* counted once however often it is checked or retried, and total_requests
\* is the number of attempts (session.get calls), retries included.
C9_UniqueAndTotalRequests ==
    /\ metrics["unique_requests"] = Cardinality(everChecked)
    /\ unique_urls = everChecked
    /\ metrics["total_requests"] = gets

\* One URL checked three times, in more than one call, with retries.
C9_Witness ==
    /\ call.kind = "none"
    /\ spawned = 3
    /\ Cardinality(everChecked) = 1
    /\ metrics["unique_requests"] = 1
    /\ gets >= 5

\* C10: a backoff wait precedes every retried attempt and never the first:
\* a task that has issued attempt a has performed a-1 backoff waits.
C10_BackoffBeforeEachRetry ==
    \A i \in TaskIds :
        tasks[i].sleeps =
            IF tasks[i].attempt >= 1 THEN tasks[i].attempt - 1 ELSE 0

\* C11: every metric counter is non-decreasing along every execution of a
\* checker instance: no step decrements or resets a counter.
C11_CountersNeverDecrease ==
    [][\A k \in MetricKeys : metrics'[k] >= metrics[k]]_vars

\* Counters that have grown over several calls on one checker.
C11_Witness ==
    /\ call.kind = "none"
    /\ spawned = 3
    /\ metrics["total_requests"] >= 4
    /\ metrics["successful_requests"] >= 1
    /\ metrics["failed_requests"] >= 1
    /\ metrics["other_errors"] >= 1

RECURSIVE SumContrib(_, _)
\* What the tasks ts have, by their own steps, added to counter k.
SumContrib(ts, k) ==
    IF ts = <<>> THEN 0 ELSE Head(ts).contrib[k] + SumContrib(Tail(ts), k)

RECURSIVE SumGets(_)
\* The number of session.get calls the tasks ts have had answered or have
\* in flight.
SumGets(ts) ==
    IF ts = <<>> THEN 0 ELSE Head(ts).attempt + SumGets(Tail(ts))

\* C12: in a batch on a checker with a session no counter or dedup update
\* is lost under any interleaving of the tasks: the URL of every started
\* task is in the dedup set and counted once, also when it occurs more than
\* once in the batch, and in the first batch of a checker every counter
\* equals the sum of what the tasks added, total_requests the number of
\* GETs issued and unique_requests the number of distinct URLs started.
C12_NoLostUpdates ==
    (call.kind = "check_urls" /\ session # "none") =>
        LET started == {i \in TaskIds :
                           tasks[i].pc \in {"awaiting", "done"}}
            seen == {call.urls[i] : i \in started}
        IN /\ seen \subseteq unique_urls
           /\ metrics["unique_requests"] = Cardinality(unique_urls)
           /\ spawned = Len(tasks) =>
                 /\ \A k \in MetricKeys : metrics[k] = SumContrib(tasks, k)
                 /\ metrics["total_requests"] = SumGets(tasks)
                 /\ metrics["unique_requests"] = Cardinality(seen)

\* The same URL twice in one batch, both checks retried and interleaved,
\* the second finishing first.
C12_Witness ==
    /\ call.kind = "check_urls"
    /\ session # "none"
    /\ Len(tasks) = 2
    /\ call.urls[1] = call.urls[2]
    /\ order = <<2, 1>>
    /\ \A i \in TaskIds : Len(tasks[i].hist) = 2
    /\ metrics["unique_requests"] = 1
    /\ metrics["total_requests"] = 4

\* C13: get_metrics can be called in any state and returns a copy: what
\* the caller holds shows the counters as they were at the call and the
\* caller's own writes, whatever the checker counted since, and a write to
\* it leaves the checker's counters as they are.
C13_SnapshotIsACopy ==
    /\ [](snap.taken => SnapView = snap.expect)
    /\ [][(snap.taken /\ snap'.taken /\ snap'.expect # snap.expect) =>
             metrics' = metrics]_vars

\* A snapshot taken during a first check, whose request was in flight,
\* since written to by the caller, while the checker has counted on.
C13_Witness ==
    /\ snap.taken
    /\ snap.own["unique_requests"] = 1
    /\ snap.own["total_requests"] = -1
    /\ snap.own["successful_requests"] = 0
    /\ snap.own["failed_requests"] = 0
    /\ metrics["successful_requests"] = 2
    /\ metrics["total_requests"] >= 3

\* C14: the session is open while the thread is inside the scope of its
\* checker and is not open once the scope has ended, whether the loop ran
\* to its end, stop() broke it or an exception left the scope.
C14_SessionClosedAfterScope ==
    /\ thread.pc \in {"loop", "await", "exit"} => session = "open"
    /\ thread.pc \in {"returned", "finished", "aborted"} => session # "open"
    /\ (thread.pc \in {"returned", "finished"} /\ thread.urls # <<>>) =>
           session = "closed"

\* A run that stop() ended before its second URL, after the scope.
C14_Witness ==
    /\ thread.pc = "finished"
    /\ ~thread.is_running
    /\ Len(thread.urls) = 2
    /\ Len(thread.emitted) = 1
    /\ session = "closed"

\* A run that an exception ended with a check in flight.
C14_WitnessAborted ==
    /\ thread.pc = "aborted"
    /\ session = "closed"
    /\ gets >= 1

Produced ==
    {tasks[i].result : i \in {j \in TaskIds : tasks[j].pc = "done"}}
        \cup {ret.value[i] : i \in 1..Len(ret.value)}

\* C16: in every result is_available is true iff a response was obtained
\* and 200 <= status < 400, and status is 0 iff no response was obtained.
C16_AvailableIffResponseInRange ==
    \A i \in TaskIds :
        tasks[i].pc = "done" =>
            LET h == tasks[i].hist
                r == tasks[i].result
                responded == h # <<>> /\ h[Len(h)].kind = "response"
            IN /\ r.is_available <=>
                      (responded /\ 200 <= h[Len(h)].status
                                 /\ h[Len(h)].status < 400)
               /\ r.status = 0 <=> ~responded
               /\ responded => r.status = h[Len(h)].status

\* Two finished checks at the edge of the window: status 399 after a
\* failed attempt, available, and status 400, not available.
C16_Witness ==
    /\ \E i \in TaskIds :
          /\ tasks[i].pc = "done"
          /\ Len(tasks[i].hist) = 2
          /\ tasks[i].result.status = 399
          /\ tasks[i].result.is_available
    /\ \E i \in TaskIds :
          /\ tasks[i].pc = "done"
          /\ tasks[i].result.status = 400
          /\ ~tasks[i].result.is_available

\* C17: a result carries an error iff no response was obtained; a failure
\* result has final_url, headers and content_type absent; a result built
\* from a response has no error, also with status 400 and above where
\* is_available is false.
C17_ErrorIffNoResponse ==
    \A i \in TaskIds :
        tasks[i].pc = "done" =>
            LET h == tasks[i].hist
                r == tasks[i].result
                responded == h # <<>> /\ h[Len(h)].kind = "response"
            IN /\ r.error.present <=> ~responded
               /\ r.error.present => ~r.is_available
               /\ ~responded =>
                     /\ r.final_url = "None"
                     /\ r.headers = "None"
                     /\ r.content_type = "None"
               /\ responded =>
                     /\ r.final_url = "set"
                     /\ r.headers = "set"
                     /\ r.content_type = "headers.get"

\* A response with status 400, unavailable and without error, next to a
\* failure result of a check whose attempts all failed.
C17_Witness ==
    /\ \E i \in TaskIds :
          /\ tasks[i].pc = "done"
          /\ tasks[i].result.status = 400
          /\ ~tasks[i].result.is_available
          /\ ~tasks[i].result.error.present
    /\ \E i \in TaskIds :
          /\ tasks[i].pc = "done"
          /\ Len(tasks[i].hist) = 2
          /\ tasks[i].result.error.present
          /\ tasks[i].result.final_url = "None"

\* C18: every result returned by check_url, safe_check_url or check_urls
\* has response_time present, on success and on every failure path.
C18_ResponseTimeAlwaysPresent ==
    \A r \in Produced : r.response_time = "set"

Exhausted(h) ==
    \/ h = <<>>
    \/ /\ Len(h) = max_retries
       /\ h[Len(h)].kind = "raise"
       /\ ~IsInstance(h[Len(h)].exc, "TooManyRedirects")
       /\ \/ IsInstance(h[Len(h)].exc, "TimeoutError")
          \/ IsInstance(h[Len(h)].exc, "ClientError")
          \/ ~IsInstance(h[Len(h)].exc, "SSLError")

TimesOutAlways(h) ==
    /\ Len(h) = max_retries
    /\ h # <<>>
    /\ \A n \in 1..Len(h) : Raised(h[n], "TimeoutError")

NetworkErrorAlways(h) ==
    /\ Len(h) = max_retries
    /\ h # <<>>
    /\ \A n \in 1..Len(h) : Raised(h[n], "ClientError")

TLSFailing(h) == h # <<>> /\ \A n \in 1..Len(h) : TLSError(h[n])

Responding(h) == Len(h) = 1 /\ h[1].kind = "response"

\* What C20 says a URL with attempts h adds to counter k.
PerUrl(h, k) ==
    CASE TimesOutAlways(h) ->
           IF k = "total_requests" THEN max_retries
           ELSE IF k = "timeout_errors" THEN 1 ELSE 0
      [] NetworkErrorAlways(h) ->
           IF k = "total_requests" THEN max_retries
           ELSE IF k = "network_errors" THEN 1 ELSE 0
      [] TLSFailing(h) ->
           IF k \in {"total_requests", "ssl_errors"} THEN 1 ELSE 0
      [] OTHER ->
           IF k \in {"total_requests", "successful_requests"} THEN 1 ELSE 0

RECURSIVE SumPerUrl(_, _)
SumPerUrl(ts, k) ==
    IF ts = <<>> THEN 0 ELSE PerUrl(Head(ts).hist, k) + SumPerUrl(Tail(ts), k)

\* C20: after the first batch on a checker, every URL of which timed out on
\* all attempts, had network errors on all attempts, failed its TLS
\* handshake or responded at once, the counters are the sums of the per-URL
\* contributions whatever the order the tasks ran in; N URLs answering 200
\* give total_requests = N, successful_requests = N, failed_requests = 0.
C20_BatchMetricsAreSums ==
    (/\ call.kind = "check_urls"
     /\ session # "none"
     /\ spawned = Len(tasks)
     /\ \A i \in TaskIds :
           /\ tasks[i].pc = "done"
           /\ \/ TimesOutAlways(tasks[i].hist)
              \/ NetworkErrorAlways(tasks[i].hist)
              \/ TLSFailing(tasks[i].hist)
              \/ Responding(tasks[i].hist)) =>
        /\ \A k \in {"total_requests", "timeout_errors", "network_errors",
                     "ssl_errors", "successful_requests"} :
              metrics[k] = SumPerUrl(tasks, k)
        /\ (\A i \in TaskIds : tasks[i].hist[1].kind = "response"
                                 /\ tasks[i].hist[1].status = 200) =>
              metrics["failed_requests"] = 0

\* The tracker methods change nothing but the record of their URL, and
\* nothing at all for a URL that is not tracked.
OthersUnchanged(url) ==
    /\ DOMAIN data = DOMAIN tlast.before \cup
                        (IF tlast.op = "add_url" THEN {url} ELSE {})
    /\ \A x \in DOMAIN tlast.before \ {url} : data[x] = tlast.before[x]

\* C21: add_url of a URL not yet tracked creates its record with the given
\* title, status pending and every other field null; add_url of a tracked
\* URL, with any title and in any status, changes no record.
C21_AddUrlIdempotent ==
    tlast.op = "add_url" =>
        IF tlast.url \in DOMAIN tlast.before
        THEN data = tlast.before
        ELSE /\ OthersUnchanged(tlast.url)
             /\ data[tlast.url] =
                   [title |-> tlast.arg, status |-> "pending",
                    check_result |-> "None", check_time |-> "None",
                    markdown_path |-> "None", error |-> "None"]

\* add_url with another title for a URL that is tracked and completed,
\* next to a second tracked URL.
C21_Witness ==
    /\ tlast.op = "add_url"
    /\ tlast.url \in DOMAIN tlast.before
    /\ tlast.before[tlast.url].status = "completed"
    /\ tlast.before[tlast.url].title # tlast.arg
    /\ Cardinality(DOMAIN data) = 2

C23_ResetFailed ==
    tlast.op = "reset_failed" =>
        /\ DOMAIN data = DOMAIN tlast.before
        /\ \A url \in DOMAIN data :
              IF tlast.before[url].status = "failed"
              THEN data[url] =
                     [title |-> tlast.before[url].title,
                      status |-> "pending", check_result |-> "None",
                      check_time |-> "None", markdown_path |-> "None",
                      error |-> "None"]
              ELSE data[url] = tlast.before[url]

\* reset_failed on a failed record with a check result and an error next
\* to a record in status error.
C23_Witness ==
    /\ tlast.op = "reset_failed"
    /\ \E url \in DOMAIN data :
          /\ tlast.before[url].status = "failed"
          /\ tlast.before[url].check_result = "False"
          /\ tlast.before[url].error = "Test error"
          /\ data[url].status = "pending"
    /\ \E url \in DOMAIN data : data[url].status = "error"

\* C24: update_markdown_path on a tracked URL, from any status, sets
\* status completed and the path when a path is given, status failed and
\* no path when None is given, and changes nothing else;
\* update_check_result sets status checked, the result and the error.
C24_UpdatePathAndResult ==
    /\ (tlast.op = "update_markdown_path"
          /\ tlast.url \in DOMAIN tlast.before) =>
          /\ OthersUnchanged(tlast.url)
          /\ data[tlast.url] =
                [tlast.before[tlast.url] EXCEPT
                    !.status = IF tlast.arg # "None"
                               THEN "completed" ELSE "failed",
                    !.markdown_path = tlast.arg]
    /\ (tlast.op = "update_check_result"
          /\ tlast.url \in DOMAIN tlast.before) =>
          /\ OthersUnchanged(tlast.url)
          /\ data[tlast.url] =
                [tlast.before[tlast.url] EXCEPT
                    !.status = "checked", !.check_result = tlast.arg,
                    !.check_time = "set", !.error = tlast.error]

\* update_markdown_path(url, None) on a completed record with a path.
C24_Witness ==
    /\ tlast.op = "update_markdown_path"
    /\ tlast.arg = "None"
    /\ tlast.url \in DOMAIN tlast.before
    /\ tlast.before[tlast.url].status = "completed"
    /\ tlast.before[tlast.url].markdown_path = "test.md"
    /\ data[tlast.url].status = "failed"
    /\ data[tlast.url].error = "Test error"

\* The URLs thread t has added.
AddedBy(t) ==
    {TestUrls[t][n].url :
        n \in {k \in 1..Len(TestUrls[t]) :
                  \/ k < tthreads[t].i
                  \/ /\ k = tthreads[t].i
                     /\ tthreads[t].pc \in {"update_check_result",
                                            "update_markdown_path"}}}

\* C25: with several threads calling add_url, update_check_result and
\* update_markdown_path for disjoint URLs, under every interleaving the
\* tracked URLs are those the threads have added, each with its own title,
\* and once its thread is through with it a URL is completed with its own
\* path.
C25_TrackerThreadSafe ==
    /\ DOMAIN data = UNION {AddedBy(t) : t \in TrackerThreads}
    /\ \A t \in TrackerThreads : \A n \in 1..Len(TestUrls[t]) :
          LET item == TestUrls[t][n]
          IN /\ item.url \in DOMAIN data =>
                   data[item.url].title = item.title
             /\ n < tthreads[t].i =>
                   data[item.url] =
                      [title |-> item.title, status |-> "completed",
                       check_result |-> "True", check_time |-> "set",
                       markdown_path |-> item.path, error |-> "None"]

\* All threads are through with all their URLs.
C25_Witness ==
    /\ \A t \in TrackerThreads : tthreads[t].i > Len(TestUrls[t])
    /\ Cardinality(DOMAIN data) = 6

\* The calls of process_url for url that have not returned.
Unfinished(url) ==
    {k \in DOMAIN futures : futures[k].url = url /\ futures[k].pc # "done"}

\* url waits in the queue, is held by the queue thread, or is with a call
\* of process_url that has not returned.
InPipeline(url) ==
    \/ \E n \in DOMAIN queue : queue[n] = url
    \/ queue_thread.url = url
    \/ Unfinished(url) # {}

Completed(url) ==
    /\ data[url].status = "completed"
    /\ data[url].markdown_path = SavePath(url)

\* Processing is running and stop_processing has not been called since the
\* processor was made.
FirstRun == is_running /\ ~phist.everStopped

\* C26 the outcome of the generations of a URL is its status: without a
\* successful generation it is never "completed"; once no call of
\* process_url for it is left, it is "completed" with its markdown_path set
\* if every generation succeeded and "error" if every generation failed.
C26_StatusFollowsGeneration ==
    \A url \in DOMAIN data :
        /\ url \notin phist.generated => data[url].status # "completed"
        /\ (Unfinished(url) = {} /\ url \in phist.generated
               /\ url \notin phist.failed) => Completed(url)
        /\ (Unfinished(url) = {} /\ url \in phist.failed
               /\ url \notin phist.generated) => data[url].status = "error"

\* C26 while processing is running and not stopped, every URL added with
\* add_url, before or after start_processing, leaves the queue and comes
\* to a final status: "completed" with markdown_path set after a
\* successful generation, "error" and never "completed" after a failed
\* one; it does not stay "pending" or "processing" for ever.
C26_EveryUrlProcessed ==
    /\ []C26_StatusFollowsGeneration
    /\ \A url \in URLs :
          (FirstRun /\ url \in DOMAIN data)
             ~> \/ ~is_running
                \/ /\ url \in DOMAIN data
                   /\ Unfinished(url) = {}
                   /\ \/ Completed(url) /\ url \in phist.generated
                      \/ data[url].status = "error" /\ url \in phist.failed

\* One URL was completed and the other failed in a run that was not
\* stopped, one of them added after start_processing.
C26_Witness ==
    /\ FirstRun
    /\ DOMAIN data = URLs
    /\ phist.last = "add_url"
    /\ \E u1, u2 \in URLs :
          /\ Completed(u1) /\ phist.generated = {u1}
          /\ data[u2].status = "error" /\ phist.failed = {u2}
          /\ Unfinished(u1) = {} /\ Unfinished(u2) = {}

\* C27 after a stop_processing and another start_processing, every tracked
\* URL that is not completed and whose generation has not failed is in the
\* queue or with a call of process_url again, and it becomes "completed"
\* with its markdown_path set unless its generation fails or processing is
\* stopped again.
C27_ResumeCompletesEveryUrl ==
    /\ [](\A url \in DOMAIN data :
             (is_running /\ phist.everStopped /\ ~Completed(url)
                 /\ url \notin phist.failed) => InPipeline(url))
    /\ \A url \in URLs :
          (is_running /\ phist.everStopped /\ url \in DOMAIN data)
             ~> \/ ~is_running
                \/ url \in phist.failed
                \/ url \in DOMAIN data /\ Completed(url)

\* C28 when stop_processing has returned, stop_event is set, is_running is
\* False, the queue thread has ended, no call of process_url is executing
\* and the queue is empty; and a stop_processing that was called returns.
C28_StopLeavesNothingRunning ==
    /\ []((phist.last = "stop_processing" /\ pcaller = "idle"
              /\ ~is_running /\ stop_event)
            => /\ queue_thread = NoQueueThread
               /\ queue = <<>>
               /\ \A k \in DOMAIN futures :
                     futures[k].pc \in {"queued", "done"})
    /\ [](phist.last = "stop_processing" /\ pcaller = "idle" /\ ~is_running
            => stop_event)
    /\ (pcaller = "stop_shutdown") ~> (pcaller = "idle" /\ ~is_running)

\* C29 a tracker record with status "completed" has its markdown_path set,
\* in every state a reader can see.
C29_CompletedHasPath ==
    \A url \in DOMAIN data :
        data[url].status = "completed" => data[url].markdown_path # "None"

\* C30: a check whose attempts all raise an unexpected error makes
\* max_retries attempts, adds 1 to other_errors and 1 to failed_requests on
\* the last of them and nothing to any error counter before, and returns
\* status 0 with the error's text.
C30_UnexpectedErrorCountedOnce ==
    \A i \in TaskIds :
        LET h == tasks[i].hist
        IN (/\ h # <<>>
            /\ \A n \in 1..Len(h) : Raised(h[n], "Exception")) =>
              /\ Len(h) <= max_retries
              /\ tasks[i].contrib["other_errors"] =
                    IF tasks[i].pc = "done" THEN 1 ELSE 0
              /\ tasks[i].contrib["failed_requests"] =
                    IF tasks[i].pc = "done" THEN 1 ELSE 0
              /\ tasks[i].pc = "done" =>
                    /\ Len(h) = max_retries
                    /\ tasks[i].result.status = 0
                    /\ tasks[i].result.error.detail = Str("Exception")

\* ------------------------------------------------- check_url, one call
\* max_retries on both sides of the decorator's stop_after_attempt(3).
MaxRetriesLong == 4

\* check_url calls made on the checker.
MaxCalls == 2

InitRetries ==
    /\ max_retries \in 0..MaxRetriesLong
    /\ session = "none"
    /\ metrics = ZeroMetrics
    /\ unique_urls = {}
    /\ call = NoCall
    /\ tasks = <<>>
    /\ order = <<>>
    /\ ret = NoRet
    /\ spawned = 0
    /\ gets = 0
    /\ everChecked = {}
    /\ snap = NoSnap
    /\ thread = NoThread
    /\ data = NoUrls
    /\ processing_file = SaveData(NoUrls)
    /\ tlast = NoOp
    /\ tthreads = [t \in TrackerThreads |-> NewTrackerThread]
    /\ queue = <<>>
    /\ is_running = FALSE
    /\ stop_event = FALSE
    /\ queue_thread = NoQueueThread
    /\ executor = [id |-> 1, shutdown |-> FALSE]
    /\ futures = <<>>
    /\ pcaller = "idle"
    /\ phist = NoHistory

\* A checker whose callers await check_url, one call at a time.
NextRetries ==
    \/ AEnter /\ UNCHANGED ext
    \/ AExit /\ UNCHANGED ext
    \/ \E u \in URLs : spawned < MaxCalls /\ CallCheckUrl(u) /\ UNCHANGED ext
    \/ Start(1) /\ UNCHANGED ext
    \/ \E o \in Outcomes : Respond(1, o) /\ UNCHANGED ext
    \/ Return /\ UNCHANGED ext

SpecRetries == InitRetries /\ [][NextRetries]_vars

\* The attempt ended in the clause for timeouts and client errors without
\* ending the check early (it is retried while attempts are left).
Retriable(o) ==
    /\ o.kind = "raise"
    /\ ~IsInstance(o.exc, "TooManyRedirects")
    /\ IsInstance(o.exc, "TimeoutError") \/ IsInstance(o.exc, "ClientError")

\* C31: a check_url call issues at most max_retries GETs, whatever its
\* attempts give, and total_requests grows by the GETs issued: the
\* decorator never calls the body again (no wait of tenacity ever happens),
\* and a check whose attempts all fail with a timeout or a client error
\* makes all max_retries attempts, also when max_retries is above the
\* decorator's stop_after_attempt(3).
C31_AtMostMaxRetriesGets ==
    /\ gets = metrics["total_requests"]
    /\ \A i \in TaskIds :
          /\ tasks[i].attempt <= max_retries
          /\ tasks[i].contrib["total_requests"] = tasks[i].attempt
          /\ Len(tasks[i].hist) <= tasks[i].attempt
          /\ tasks[i].sleeps = 0
          /\ (/\ tasks[i].pc = "done"
              /\ tasks[i].exc = "none"
              /\ \A n \in 1..Len(tasks[i].hist) : Retriable(tasks[i].hist[n]))
                => Len(tasks[i].hist) = max_retries

\* A check with max_retries 4 made four attempts that timed out.
C31_Witness ==
    \E i \in TaskIds :
        /\ tasks[i].pc = "done"
        /\ max_retries = MaxRetriesLong
        /\ Len(tasks[i].hist) = max_retries
        /\ \A n \in 1..max_retries : Raised(tasks[i].hist[n], "TimeoutError")
        /\ tasks[i].contrib["total_requests"] = max_retries

\* The result built after the attempt loop.
IsFallback(r) == r.error = Err("Unknown error", "")

\* C32 as stated: no call of check_url returns the fallback result,
\* whatever max_retries is.
C32_FallbackNeverReturned ==
    \A i \in TaskIds : tasks[i].pc = "done" => ~IsFallback(tasks[i].result)

\* C32 (amended): with max_retries of 1 or more every call of check_url on
\* an initialized checker returns from inside the attempt loop, whatever
\* the attempts give; the fallback result (error "Unknown error",
\* retry_count = max_retries, failed_requests incremented) is returned
\* exactly when max_retries is 0 and the loop body never runs.
C32_FallbackOnlyWithoutAttempts ==
    \A i \in TaskIds :
        (tasks[i].pc = "done" /\ tasks[i].exc = "none") =>
            /\ IsFallback(tasks[i].result) <=> max_retries = 0
            /\ max_retries >= 1 => tasks[i].hist # <<>>
            /\ IsFallback(tasks[i].result) =>
                  /\ tasks[i].hist = <<>>
                  /\ tasks[i].result.retry_count = max_retries
                  /\ tasks[i].contrib["failed_requests"] = 1
                  /\ tasks[i].contrib["total_requests"] = 0

\* A check used up its attempts, the last one on an unexpected error, and
\* returned that error.
C32_Witness ==
    \E i \in TaskIds :
        /\ max_retries = 2
        /\ tasks[i].pc = "done"
        /\ Len(tasks[i].hist) = 2
        /\ Raised(tasks[i].hist[1], "TimeoutError")
        /\ Raised(tasks[i].hist[2], "Exception")
        /\ tasks[i].result.error = Err("", "Exception")

\* C33: an attempt that obtains a response, whatever its status, ends the
\* check at once: in that step successful_requests grows by 1 and no other
\* counter changes, no GET is issued, and the check is done with
\* retry_count = attempt - 1 and status, headers, content_type and
\* final_url from the response; a response is always the last attempt of
\* its check.
C33_ResponseEndsTheLoop ==
    /\ [](\A i \in TaskIds : \A n \in 1..Len(tasks[i].hist) :
             tasks[i].hist[n].kind = "response" =>
                /\ n = Len(tasks[i].hist)
                /\ tasks[i].attempt = n
                /\ tasks[i].pc = "done"
                /\ tasks[i].contrib["successful_requests"] = 1
                /\ tasks[i].contrib["failed_requests"] = 0
                /\ tasks[i].result =
                      [url |-> call.urls[i],
                       status |-> tasks[i].hist[n].status,
                       is_available |-> Available(tasks[i].hist[n]),
                       final_url |-> "set", error |-> NoError,
                       headers |-> "set", content_type |-> "headers.get",
                       response_time |-> "set", retry_count |-> n - 1])
    /\ [][\A i \in TaskIds :
             (/\ Len(tasks') = Len(tasks)
              /\ Len(tasks'[i].hist) = Len(tasks[i].hist) + 1
              /\ tasks'[i].hist[Len(tasks'[i].hist)].kind = "response") =>
                /\ metrics' = Inc(metrics, "successful_requests")
                /\ gets' = gets
                /\ tasks'[i].pc = "done"
                /\ tasks'[i].attempt = tasks[i].attempt
                /\ tasks'[i].result.retry_count = tasks[i].attempt - 1
      ]_vars

\* A check ended on its second attempt with a response of status 400,
\* after a first attempt that timed out.
C33_Witness ==
    \E i \in TaskIds :
        /\ tasks[i].pc = "done"
        /\ Len(tasks[i].hist) = 2
        /\ Raised(tasks[i].hist[1], "TimeoutError")
        /\ tasks[i].hist[2].kind = "response"
        /\ tasks[i].hist[2].status = 400
        /\ tasks[i].result.status = 400
        /\ tasks[i].result.retry_count = 1
        /\ tasks[i].contrib["successful_requests"] = 1

\* C34: every check that has returned a result is counted exactly once, as
\* successful or as failed, whatever class of failure ended it; a check
\* that has not returned is counted in neither.  (With no check in flight
\* successful_requests + failed_requests is then the number of results
\* returned.)
C34_EveryCheckCountedOnce ==
    \A i \in TaskIds :
        tasks[i].contrib["successful_requests"]
            + tasks[i].contrib["failed_requests"]
          = IF tasks[i].pc = "done" THEN 1 ELSE 0

\* C35: on a checker whose scope has ended check_url raises the
\* session-not-initialized error without issuing a GET and without changing
\* a metric or the dedup set.
C35_ClosedBehavesUninitialized ==
    /\ [](session = "closed" /\ call.kind = "check_url" =>
            \A i \in TaskIds :
                /\ tasks[i].pc \in {"created", "raised"}
                /\ tasks[i].contrib = ZeroMetrics
                /\ tasks[i].attempt = 0)
    /\ [][(session = "closed" /\ call.kind = "check_url" /\ tasks' # tasks
             /\ call' = call) =>
             /\ tasks'[1].pc = "raised"
             /\ tasks'[1].exc = "RuntimeError"
             /\ metrics' = metrics
             /\ unique_urls' = unique_urls
             /\ gets' = gets]_vars

\* The methods of the tracker that change the URL table.
Mutators ==
    {"add_url", "update_check_result", "update_markdown_path",
     "update_url_status", "reset_failed"}

\* C36: after every mutating method of the tracker has returned, what a
\* new tracker loads from processing.json is the URL table in memory; a
\* call that does not apply (add_url of a tracked URL, an update of an
\* unknown URL, reset_failed without a failed URL) leaves the table and
\* the file as they were.
C36_FileIsTheTable ==
    /\ [](LoadData(processing_file) = data)
    /\ [][(/\ tlast'.op \in Mutators
           /\ tlast' # tlast
           /\ ~Saves(tlast'.op, data, tlast'.url)) =>
             /\ data' = data
             /\ processing_file' = processing_file]_vars

\* update_url_status has changed a record of a table of two URLs, one of
\* them with a check result of False and an error text, and the file holds
\* the new table.
C36_Witness ==
    /\ tlast.op = "update_url_status"
    /\ tlast.url \in DOMAIN tlast.before
    /\ data # tlast.before
    /\ DOMAIN data = URLs
    /\ \E u \in URLs :
          /\ data[u].check_result = "False"
          /\ data[u].error = "Test error"
          /\ processing_file[u].check_result = [t |-> "false", s |-> ""]
    /\ LoadData(processing_file) = data
    /\ processing_file = SaveData(data)

\* The URLs the last call, a reset_failed, has reset.
ResetUrls == {url \in DOMAIN tlast.before : tlast.before[url].status = "failed"}

C38_RunningIffOneThread ==
    is_running <=> phist.threads = 1

\* C38 (amended): a processor never has two queue threads: a new Thread
\* object is put in place of self.queue_thread only when no thread is
\* there, start_processing goes past its test only while is_running is
\* False, and at most one thread is started and not yet joined.  Whenever
\* no call of start_processing or stop_processing is in progress,
\* is_running is True iff exactly one queue thread has been started and
\* not joined; inside start_processing is_running is True before the
\* thread is started, and inside stop_processing it is False before the
\* thread is joined.
C38_AtMostOneQueueThread ==
    /\ [](phist.threads \in {0, 1})
    /\ [](phist.threads = 1 <=> queue_thread.pc \in {"loop", "got", "submit",
                                                     "exited"})
    /\ [](pcaller = "start_processing" =>
             ~is_running /\ queue_thread = NoQueueThread)
    /\ [](pcaller = "idle" => (is_running <=> phist.threads = 1))
    /\ [](pcaller = "start_thread" => is_running /\ phist.threads = 0)
    /\ [](pcaller \in {"stop_shutdown", "stop_wait", "stop_join"} =>
             ~is_running /\ phist.threads = 1)
    /\ [][is_running /\ pcaller = "idle" =>
             (queue_thread'.pc # "created" /\ phist'.threads <= 1)]_vars

\* A second run: a queue thread was started, joined by stop_processing,
\* and another one started, which is at work.
C38_Witness ==
    /\ phist.starts = 2
    /\ phist.everStopped
    /\ is_running
    /\ pcaller = "idle"
    /\ phist.threads = 1
    /\ queue_thread.pc = "got"

\* The calls of process_url that are past the test of stop_event and have
\* not returned.
Processing(url) ==
    {k \in DOMAIN futures :
        /\ futures[k].url = url
        /\ futures[k].pc \in {"begun", "generating", "completed"}}

\* C39: no two workers process the same URL at the same time, also when
\* add_url was called twice for it.
C39_OneWorkerPerUrl ==
    \A url \in URLs : Cardinality(Processing(url)) <= 1

====
